---- MODULE Spec2Model ----
(***************************************************************************)
(* A state-machine model of the stream multiplexer and the datagram        *)
(* channel of gm-quic                                                      *)
(* (qrecovery/src/streams/data.rs, qrecovery/src/send/outgoing.rs).        *)
(*                                                                         *)
(* The OutputTable (RawOutput) is a sorted map StreamId -> Outgoing plus   *)
(* the round-robin cursor cur_sending_stream.  Each Outgoing wraps a       *)
(* shared sender (Arc<Mutex<Result<Sender, Error>>>) that outlives its     *)
(* entry in the table, so the senders are kept for every stream id that    *)
(* was ever created and the table is the set of ids it still holds.        *)
(*                                                                         *)
(* The datagram channel (qunreliable/src/writer.rs) is the queue of        *)
(* payloads behind Arc<Mutex<Result<RawDatagramWriter, Error>>> with the   *)
(* peer's max_datagram_frame_size and the tasks waiting for it.            *)
(***************************************************************************)
EXTENDS Integers, Sequences, FiniteSets, TLC

VARIABLES
    outgoings,          \* RawOutput.outgoings: the StreamIds in the OutputTable
    cur_sending_stream, \* RawOutput.cur_sending_stream: None or Some(<<sid, tokens>>)
    output_err,         \* ArcOutput is Err(e): 0 healthy, else the error
    senders,            \* StreamId -> the sender behind its Outgoing
    input,              \* the StreamIds in the InputTable
    input_err,          \* ArcInput is Err(e): 0 healthy, else the error
    listener,           \* ArcListener: the accepted remote streams, in order
    listener_err,       \* ArcListener is Err(e): 0 healthy, else the error
    stream_ids,         \* StreamIds: allocation counters and limits
    ctrl_frames,        \* the StreamCtlFrames handed to SendFrame, in order
    inflight,           \* STREAM frames emitted, neither acked nor lost yet
    watcher,            \* StreamId -> position of the cancel watcher task
    panicked,           \* a handler hit unreachable!()
    ret,                \* the last operation and what it returned
    emitted,            \* StreamId -> data bytes emitted (scheduler accounting)
    nlost,              \* the number of STREAM frames declared lost so far
    recvers,            \* StreamId -> the receiver behind its Incoming
    open_tasks,         \* task -> position of an application task in open_bi/open_uni
    producers,          \* task -> the send stream a producer is suspended on
    datagram_err,       \* ArcDatagramWriter is Err(e): 0 healthy, else the error
    remote_max_size,    \* RawDatagramWriter.remote_max_size: None or Some(size)
    queue,              \* RawDatagramWriter.queue: the payloads, head first
    datagram_tasks,     \* task -> position in new_writer / max_datagram_frame_size
    lock_owner,         \* mutex -> None or Some(the thread that holds it)
    lock_pc,            \* thread -> the lock steps left of the operation it runs
    router,             \* ArcRouter: ConnectionId -> None or Some(connection)
    entries,            \* connection -> its four PacketEntry queues
    issued_cids,        \* connection -> the NEW_CONNECTION_ID frames handed to its queue
    registries          \* connection -> its RouterRegistry and the frame send_frame is at

vars == <<outgoings, cur_sending_stream, output_err, senders, input, input_err,
          listener, listener_err, stream_ids, ctrl_frames, inflight, watcher, panicked, ret,
          emitted, nlost, recvers, open_tasks, producers, datagram_err,
          remote_max_size, queue, datagram_tasks, lock_owner, lock_pc, router,
          entries, issued_cids, registries>>

\* the state of the datagram channel
datagram_vars == <<datagram_err, remote_max_size, queue, datagram_tasks>>
\* what the stream manager's handlers other than on_conn_error leave alone
\* the mutexes of the stream manager and the threads inside its operations
lock_vars == <<lock_owner, lock_pc>>
\* the connection-id router
router_vars == <<router, entries, issued_cids, registries>>
beside_channels == <<lock_vars, router_vars>>
beside_streams == <<producers, datagram_vars, beside_channels>>

(***************************************************************************)
(* Bounds of the model and constants of the program.                       *)
(***************************************************************************)
DEFAULT_TOKENS == 4096

\* the most bytes the application writes, over all streams
MaxLen == 2

\* the quanta of data each stream holds beyond the first in the fairness runs
MaxRounds == 1

\* the most STREAM frames the recovery declares lost
MaxLoss == 1

\* the streams of each initiator and direction in the runs on stream ids
MaxStreams == 2

None == <<>>
Some(x) == <<x>>
IsSome(o) == o # <<>>
Unwrap(o) == o[1]

Min(a, b) == IF a <= b THEN a ELSE b
Max(a, b) == IF a >= b THEN a ELSE b
SetMin(S) == CHOOSE x \in S : \A y \in S : x <= y
SetMax(S) == CHOOSE x \in S : \A y \in S : x >= y

(***************************************************************************)
(* Stream ids: bit 0 is the initiator's role, bit 1 the direction.         *)
(***************************************************************************)
LocalRole == "Client"
SidRole(sid) == IF sid % 2 = 0 THEN "Client" ELSE "Server"
SidDir(sid) == IF (sid \div 2) % 2 = 0 THEN "Bi" ELSE "Uni"
SidIndex(sid) == sid \div 4
MkSid(role, dir, idx) ==
    4 * idx + (IF dir = "Uni" THEN 2 ELSE 0) + (IF role = "Server" THEN 1 ELSE 0)

(***************************************************************************)
(* Variable-length integers and STREAM frame sizes.                        *)
(***************************************************************************)
VarIntSize(v) ==
    IF v < 64 THEN 1 ELSE IF v < 16384 THEN 2 ELSE IF v < 1073741824 THEN 4 ELSE 8

\* a STREAM frame's size without its length field and data
FrameHeaderSize(sid, offset) ==
    1 + VarIntSize(sid) + (IF offset # 0 THEN VarIntSize(offset) ELSE 0)

estimate_max_capacity(capacity, sid, offset) ==
    IF capacity <= FrameHeaderSize(sid, offset)
    THEN None
    ELSE Some(capacity - FrameHeaderSize(sid, offset))

\* ShouldCarryLength: NoProblem, PaddingFirst(n) or ShouldAfter
should_carry_length(sid, offset, len, capacity) ==
    LET remaining == capacity - FrameHeaderSize(sid, offset) - len
    IN  IF remaining = 0 THEN [kind |-> "NoProblem", n |-> 0]
        ELSE IF remaining < VarIntSize(len)
             THEN [kind |-> "PaddingFirst", n |-> remaining]
             ELSE [kind |-> "ShouldAfter", n |-> remaining - VarIntSize(len)]

(***************************************************************************)
(* Sets of byte ranges [lo, hi), kept disjoint and merged.                 *)
(***************************************************************************)
RangeInsert(rs, lo, hi) ==
    IF lo >= hi THEN rs
    ELSE LET touching == {r \in rs : r[1] <= hi /\ lo <= r[2]}
             nlo == SetMin({lo} \cup {r[1] : r \in touching})
             nhi == SetMax({hi} \cup {r[2] : r \in touching})
         IN  (rs \ touching) \cup {<<nlo, nhi>>}

RangeRemove(rs, lo, hi) ==
    IF lo >= hi THEN rs
    ELSE {<<r[1], Min(r[2], lo)>> : r \in {q \in rs : q[1] < lo}}
         \cup {<<Max(r[1], hi), r[2]>> : r \in {q \in rs : q[2] > hi}}

RECURSIVE RangeRemoveAll(_, _)
RangeRemoveAll(rs, del) ==
    IF del = {} THEN rs
    ELSE LET d == CHOOSE x \in del : TRUE
         IN  RangeRemoveAll(RangeRemove(rs, d[1], d[2]), del \ {d})

RangeCovers(rs, lo, hi) == lo >= hi \/ \E r \in rs : r[1] <= lo /\ hi <= r[2]

(***************************************************************************)
(* The sender behind an Outgoing.                                          *)
(*   st     Ready | Sending | DataSent | ResetSent | DataRcvd | ResetRcvd, *)
(*          None before the stream exists, Err after a connection error    *)
(*   len    written_offset: bytes the application has written              *)
(*   sent   flushed_offset: bytes handed out to STREAM frames at least once*)
(*   acked, lost   acknowledged ranges, ranges marked for retransmission   *)
(*   wnd    the peer's MAX_STREAM_DATA                                     *)
(*   shut   the application has closed the stream (fin)                    *)
(*   cancel the application's cancel: -1, or its error code                *)
(*   final  the final size kept by ResetSent                               *)
(*   fin_acked  a frame carrying the FIN bit was acknowledged              *)
(***************************************************************************)
NoSender ==
    [st |-> "None", len |-> 0, sent |-> 0, acked |-> {}, lost |-> {},
     wnd |-> 0, shut |-> FALSE, cancel |-> -1, final |-> 0, fin_acked |-> FALSE]

ErrSender == [NoSender EXCEPT !.st = "Err"]

\* send::new(wnd_size)
NewSender(wnd_size) == [NoSender EXCEPT !.st = "Ready", !.wnd = wnd_size]

\* the terminal variants carry no data; len keeps what was written
Terminal(s, st, final) == [NoSender EXCEPT !.st = st, !.final = final, !.len = s.len]

is_shutdown(s) == s.shut

is_all_rcvd(s) == RangeCovers(s.acked, 0, s.len)

sender_update_window(s, max_data_size) ==
    IF max_data_size > s.wnd THEN [s EXCEPT !.wnd = max_data_size] ELSE s

sender_on_data_acked(s, lo, hi) ==
    [s EXCEPT !.acked = RangeInsert(s.acked, lo, hi),
              !.lost = RangeRemove(s.lost, lo, hi)]

sender_may_loss_data(s, lo, hi) ==
    [s EXCEPT !.lost = RangeRemoveAll(RangeInsert(s.lost, lo, hi), s.acked)]

data_sent_on_data_acked(s, lo, hi, is_fin) ==
    [sender_on_data_acked(s, lo, hi) EXCEPT !.fin_acked = s.fin_acked \/ is_fin]

\* the final size of a stream that is reset: what the application has written
sender_stop(s) == s.len

\* poll_cancel: Pending (None) until the application cancels
poll_cancel(s) ==
    IF s.cancel = -1 THEN None ELSE Some([final_size |-> s.len, err_code |-> s.cancel])

(***************************************************************************)
(* pick_up(predicate, flow_limit): the next chunk to send.  Ranges marked  *)
(* lost go first, lowest offset first, and are not charged to the flow     *)
(* limit; fresh bytes follow at the flushed offset, limited by the flow    *)
(* limit and the peer's window.  predicate(offset) is                      *)
(* estimate_max_capacity(capacity, sid, offset) capped by the tokens.      *)
(* Returns None or Some([s, offset, is_fresh, len]).                       *)
(***************************************************************************)
predicate(capacity, sid, tokens, offset) ==
    LET c == estimate_max_capacity(capacity, sid, offset)
    IN  IF IsSome(c) THEN Some(Min(tokens, Unwrap(c))) ELSE None

pick_up(s, capacity, sid, tokens, flow_limit) ==
    IF s.lost # {}
    THEN LET lo == SetMin({r[1] : r \in s.lost})
             r == CHOOSE q \in s.lost : q[1] = lo
             p == predicate(capacity, sid, tokens, lo)
             n == IF IsSome(p) THEN Min(Unwrap(p), r[2] - lo) ELSE 0
         IN  IF n = 0 THEN None
             ELSE Some([s |-> [s EXCEPT !.lost = RangeRemove(s.lost, lo, lo + n)],
                        offset |-> lo, is_fresh |-> FALSE, len |-> n])
    ELSE LET p == predicate(capacity, sid, tokens, s.sent)
             n == IF IsSome(p)
                  THEN Min(Min(Unwrap(p), flow_limit),
                           Min(s.len - s.sent, s.wnd - s.sent))
                  ELSE 0
         IN  IF n <= 0 THEN None
             ELSE Some([s |-> [s EXCEPT !.sent = s.sent + n],
                        offset |-> s.sent, is_fresh |-> TRUE, len |-> n])

(***************************************************************************)
(* The two sender variants that hand out data.  A SendingSender never sets *)
(* the FIN bit; a DataSentSender sets it on the chunk that ends at the     *)
(* final size.  A DataSentSender also records that its fin was acked.      *)
(***************************************************************************)
sending_pick_up(s, capacity, sid, tokens, flow_limit) ==
    LET p == pick_up(s, capacity, sid, tokens, flow_limit)
    IN  IF IsSome(p)
        THEN Some([s |-> Unwrap(p).s, offset |-> Unwrap(p).offset,
                   is_fresh |-> Unwrap(p).is_fresh, len |-> Unwrap(p).len,
                   is_eos |-> FALSE])
        ELSE None

data_sent_pick_up(s, capacity, sid, tokens, flow_limit) ==
    LET p == pick_up(s, capacity, sid, tokens, flow_limit)
    IN  IF IsSome(p)
        THEN Some([s |-> Unwrap(p).s, offset |-> Unwrap(p).offset,
                   is_fresh |-> Unwrap(p).is_fresh, len |-> Unwrap(p).len,
                   is_eos |-> (Unwrap(p).offset + Unwrap(p).len = s.len)])
        ELSE None

(***************************************************************************)
(* Outgoing (outgoing.rs).  Each operator returns the sender after the     *)
(* call together with what the method returns; panic marks unreachable!(). *)
(***************************************************************************)
Outgoing_update_window(s, max_data_size) ==
    IF s.st \in {"Ready", "Sending"}
    THEN sender_update_window(s, max_data_size)
    ELSE s

\* the write closure of try_read: the frame, its data length, is_fresh and
\* capacity - buf.remaining_mut()
write_written(sid, offset, len, capacity) ==
    LET c == should_carry_length(sid, offset, len, capacity)
    IN  CASE c.kind = "NoProblem" -> FrameHeaderSize(sid, offset) + len
          [] c.kind = "PaddingFirst" -> 0
          [] c.kind = "ShouldAfter" ->
                FrameHeaderSize(sid, offset) + VarIntSize(len) + len

write(sid, capacity, picked) ==
    [frame |-> [id |-> sid, offset |-> picked.offset, len |-> picked.len,
                fin |-> picked.is_eos],
     dat_len |-> picked.len,
     is_fresh |-> picked.is_fresh,
     written |-> write_written(sid, picked.offset, picked.len, capacity)]

\* the state a Ready sender is converted to before it is asked for data
try_read_ready_state(s) == IF is_shutdown(s) THEN "DataSent" ELSE "Sending"

\* a try_read that hands the tokens to pick_up as its flow limit
try_read_flow_limit_tokens(tokens, flow_limit) == tokens

\* the flow limit try_read hands to pick_up
try_read_flow_limit(tokens, flow_limit) == flow_limit

\* a predicate that grants a full quantum whatever tokens are left
try_read_tokens_quantum(tokens) == DEFAULT_TOKENS

\* the allowance try_read's predicate grants at an offset
try_read_tokens(tokens) == tokens

Outgoing_try_read(s, sid, capacity, tokens, flow_limit) ==
    LET fl == try_read_flow_limit(tokens, flow_limit)
        tk == try_read_tokens(tokens)
        st1 == IF s.st = "Ready" THEN try_read_ready_state(s) ELSE s.st
        s1 == [s EXCEPT !.st = st1]
        p == CASE st1 = "Sending" -> sending_pick_up(s1, capacity, sid, tk, fl)
               [] st1 = "DataSent" -> data_sent_pick_up(s1, capacity, sid, tk, fl)
               [] OTHER -> None
    IN  IF s.st \in {"Ready", "Sending", "DataSent"}
        THEN IF IsSome(p)
             THEN [s |-> Unwrap(p).s, res |-> Some(write(sid, capacity, Unwrap(p)))]
             ELSE [s |-> s1, res |-> None]
        ELSE [s |-> s, res |-> None]

\* the state on_data_acked leaves a DataSent sender in
on_data_acked_data_sent(s) ==
    IF is_all_rcvd(s)
    THEN [s |-> Terminal(s, "DataRcvd", 0), ret |-> TRUE, panic |-> FALSE]
    ELSE [s |-> s, ret |-> FALSE, panic |-> FALSE]

\* a Sending arm that completes the stream like the DataSent arm
on_data_acked_sending_done(s) == on_data_acked_data_sent(s)

\* the state on_data_acked leaves a Sending sender in
on_data_acked_sending(s) == [s |-> s, ret |-> FALSE, panic |-> FALSE]

\* an on_data_acked whose last arm merges and completes instead of ignoring
Outgoing_on_data_acked_any(s, lo, hi, is_fin) ==
    CASE s.st = "Ready" -> [s |-> s, ret |-> FALSE, panic |-> TRUE]
      [] s.st = "Sending" -> on_data_acked_sending(sender_on_data_acked(s, lo, hi))
      [] OTHER -> on_data_acked_data_sent(data_sent_on_data_acked(s, lo, hi, is_fin))

\* an on_data_acked whose DataSent arm completes the stream only on the
\* acknowledgment of the frame that carried the fin
Outgoing_on_data_acked_fin_last(s, lo, hi, is_fin) ==
    CASE s.st = "Ready" -> [s |-> s, ret |-> FALSE, panic |-> TRUE]
      [] s.st = "Sending" -> on_data_acked_sending(sender_on_data_acked(s, lo, hi))
      [] s.st = "DataSent" ->
            IF is_fin
            THEN on_data_acked_data_sent(data_sent_on_data_acked(s, lo, hi, is_fin))
            ELSE [s |-> data_sent_on_data_acked(s, lo, hi, is_fin), ret |-> FALSE,
                  panic |-> FALSE]
      [] OTHER -> [s |-> s, ret |-> FALSE, panic |-> FALSE]

Outgoing_on_data_acked(s, lo, hi, is_fin) ==
    CASE s.st = "Ready" -> [s |-> s, ret |-> FALSE, panic |-> TRUE]
      [] s.st = "Sending" -> on_data_acked_sending(sender_on_data_acked(s, lo, hi))
      [] s.st = "DataSent" ->
            on_data_acked_data_sent(data_sent_on_data_acked(s, lo, hi, is_fin))
      [] OTHER -> [s |-> s, ret |-> FALSE, panic |-> FALSE]

Outgoing_may_loss_data(s, lo, hi) ==
    CASE s.st = "Ready" -> [s |-> s, panic |-> TRUE]
      [] s.st \in {"Sending", "DataSent"} ->
            [s |-> sender_may_loss_data(s, lo, hi), panic |-> FALSE]
      [] OTHER -> [s |-> s, panic |-> FALSE]

\* a stop() that also stops a stream that was reset already
Outgoing_stop_again(s) ==
    CASE s.st = "Ready" -> [s |-> s, ret |-> FALSE, panic |-> TRUE]
      [] s.st \in {"Sending", "DataSent", "ResetSent"} ->
            [s |-> Terminal(s, "ResetSent", sender_stop(s)), ret |-> TRUE,
             panic |-> FALSE]
      [] OTHER -> [s |-> s, ret |-> FALSE, panic |-> FALSE]

Outgoing_stop(s) ==
    CASE s.st = "Ready" -> [s |-> s, ret |-> FALSE, panic |-> TRUE]
      [] s.st \in {"Sending", "DataSent"} ->
            [s |-> Terminal(s, "ResetSent", sender_stop(s)), ret |-> TRUE,
             panic |-> FALSE]
      [] OTHER -> [s |-> s, ret |-> FALSE, panic |-> FALSE]

Outgoing_on_reset_acked(s) ==
    CASE s.st \in {"ResetSent", "ResetRcvd"} ->
            [s |-> Terminal(s, "ResetRcvd", 0), panic |-> FALSE]
      [] s.st = "Err" -> [s |-> s, panic |-> FALSE]
      [] OTHER -> [s |-> s, panic |-> TRUE]

\* the states in which Outgoing::on_conn_error calls wake_all
wakes_on_conn_error(s) == s.st \in {"Ready", "Sending", "DataSent"}

Outgoing_on_conn_error(s) ==
    IF s.st \in {"Ready", "Sending", "DataSent"} THEN ErrSender ELSE s

\* IsCancelled::poll: Pending, Ready(None) or Ready(Some(final_size, err_code))
IsCancelled_poll(s) ==
    IF s.st \in {"Ready", "Sending", "DataSent"}
    THEN LET c == poll_cancel(s)
         IN  IF IsSome(c)
             THEN [s |-> Terminal(s, "ResetSent", Unwrap(c).final_size),
                   ready |-> TRUE, out |-> c]
             ELSE [s |-> s, ready |-> FALSE, out |-> None]
    ELSE [s |-> s, ready |-> TRUE, out |-> None]

(***************************************************************************)
(* The receiver behind an Incoming.                                        *)
(*   st     Recv | SizeKnown | DataRcvd | ResetRcvd, None before the       *)
(*          stream exists, Err after a connection error                    *)
(*   rcvd   the ranges of bytes received                                   *)
(*   final  the final size, -1 while it is unknown                         *)
(*   wnd    the receive window advertised to the peer                      *)
(***************************************************************************)
NoRecver == [st |-> "None", rcvd |-> {}, final |-> -1, wnd |-> 0]

ErrRecver == [NoRecver EXCEPT !.st = "Err"]

\* recv::new(buf_size)
NewRecver(buf_size) == [NoRecver EXCEPT !.st = "Recv", !.wnd = buf_size]

\* the end of the received data
largest_offset(r) == SetMax({0} \cup {x[2] : x \in r.rcvd})

\* Incoming::recv_data: [r, err, n], n the bytes newly covered
Incoming_recv_data(r, offset, len, fin) ==
    LET end == offset + len
        merged == RangeInsert(r.rcvd, offset, end)
        final == IF fin THEN end ELSE r.final
    IN  IF r.st \notin {"Recv", "SizeKnown"} THEN [r |-> r, err |-> "", n |-> 0]
        ELSE IF end > r.wnd THEN [r |-> r, err |-> "FlowControl", n |-> 0]
        ELSE IF \/ r.final # -1 /\ (end > r.final \/ (fin /\ end # r.final))
                \/ fin /\ end < largest_offset(r)
             THEN [r |-> r, err |-> "FinalSize", n |-> 0]
        ELSE [r |-> [r EXCEPT !.rcvd = merged, !.final = final,
                              !.st = IF final = -1 THEN "Recv"
                                     ELSE IF RangeCovers(merged, 0, final)
                                          THEN "DataRcvd" ELSE "SizeKnown"],
              err |-> "",
              n |-> IF RangeCovers(r.rcvd, offset, end) THEN 0 ELSE len]

\* Incoming::recv_reset: [r, err]
Incoming_recv_reset(r, final_size) ==
    IF r.st \notin {"Recv", "SizeKnown"} THEN [r |-> r, err |-> ""]
    ELSE IF \/ final_size < largest_offset(r)
            \/ r.final # -1 /\ final_size # r.final
         THEN [r |-> r, err |-> "FinalSize"]
         ELSE [r |-> [NoRecver EXCEPT !.st = "ResetRcvd", !.final = final_size],
               err |-> ""]

Incoming_on_conn_error(r) ==
    IF r.st \in {"Recv", "SizeKnown", "DataRcvd"} THEN ErrRecver ELSE r

(***************************************************************************)
(* An application task in open_bi / open_uni:                              *)
(*   pc     idle | pending (suspended in the poll, its waker registered)   *)
(*          | woken (its waker was called) | done | failed                 *)
(*   dir    the direction it asks for                                      *)
(*   sid    the stream it obtained                                         *)
(***************************************************************************)
Tasks == {1, 2}

NoTask == [pc |-> "idle", dir |-> "Bi", sid |-> -1]

(***************************************************************************)
(* Producers: application tasks suspended in a write, flush or shutdown of *)
(* a send stream; the sender keeps their wakers and wake_all calls them.   *)
(*   pc     idle | pending | woken | failed (the call returned BrokenPipe) *)
(*   sid    the send stream                                                *)
(***************************************************************************)
NoProducer == [pc |-> "idle", sid |-> -1]

\* sender.wake_all(): every task suspended on one of the streams S is woken
wake_all(S) ==
    [t \in Tasks |->
        IF producers[t].pc = "pending" /\ producers[t].sid \in S
        THEN [producers[t] EXCEPT !.pc = "woken"]
        ELSE producers[t]]

(***************************************************************************)
(* The datagram channel (qunreliable/src/writer.rs).  A payload is known   *)
(* by its length; the bytes of a packet buffer are                         *)
(*   "00"  a zero byte, which is a PADDING frame                           *)
(*   "XX"  any other byte the caller left in the buffer                    *)
(*   "30" / "31"  the type of a DATAGRAM frame without / with length       *)
(*   "LL"  a byte of the length varint,  "DD"  a byte of the payload.      *)
(* A task of the application is in new_writer or max_datagram_frame_size:  *)
(*   pc      idle | pending (waker registered in remote_max_size) | woken  *)
(*   op      the call it is suspended in                                   *)
(*   writer  it holds a DatagramWriter                                     *)
(***************************************************************************)
\* the most payloads in the queue
MaxQueue == 2

NoDatagramTask == [pc |-> "idle", op |-> "", writer |-> FALSE]

\* RawDatagramWriter::new(remote_max_size) under a healthy ArcDatagramWriter
RawDatagramWriter_new(size) ==
    /\ datagram_err = 0
    /\ remote_max_size = size
    /\ queue = <<>>
    /\ datagram_tasks = [t \in Tasks |-> NoDatagramTask]

\* usize::saturating_sub
saturating_sub(a, b) == IF a >= b THEN a - b ELSE 0

\* DatagramFrame::encoding_size: the type byte and the length varint, if any
DatagramFrame_encoding_size(with_len, len) ==
    IF with_len THEN 1 + VarIntSize(len) ELSE 1

\* the bytes of a DATAGRAM frame and its payload
DatagramFrameBytes(with_len, len) ==
    IF with_len
    THEN <<"31">> \o [i \in 1 .. VarIntSize(len) |-> "LL"] \o [i \in 1 .. len |-> "DD"]
    ELSE <<"30">> \o [i \in 1 .. len |-> "DD"]

\* buf[skip..].put_data_frame(frame, data): the frame is written at the start
\* of the slice, the bytes before and after it are not touched
put_data_frame(buf, skip, with_len, len) ==
    LET fr == DatagramFrameBytes(with_len, len)
    IN  [i \in 1 .. Len(buf) |->
            IF i > skip /\ i <= skip + Len(fr) THEN fr[i - skip] ELSE buf[i]]

\* a try_read_datagram that emits a payload only in the form with the length
DatagramOutgoing_try_read_datagram_with_len_only(err, q, buf) ==
    LET none == [queue |-> q, buf |-> buf, res |-> None]
    IN  IF err # 0 \/ q = <<>> THEN none
        ELSE LET datagram == Head(q)
                 available == Len(buf)
                 max_encoding_size == saturating_sub(available, datagram)
             IN  IF max_encoding_size >= DatagramFrame_encoding_size(TRUE, datagram)
                 THEN [queue |-> Tail(q),
                       buf |-> put_data_frame(buf, 0, TRUE, datagram),
                       res |-> Some([frame |-> "WithLen", len |-> datagram,
                                     written |-> DatagramFrame_encoding_size(TRUE, datagram)
                                                 + datagram])]
                 ELSE none

\* try_read_datagram on the channel (err, q) with the buffer buf
DatagramOutgoing_try_read_datagram(err, q, buf) ==
    LET none == [queue |-> q, buf |-> buf, res |-> None]
    IN  IF err # 0 \/ q = <<>> THEN none
        ELSE LET datagram == Head(q)
                 available == Len(buf)
                 max_encoding_size == saturating_sub(available, datagram)
             IN  IF max_encoding_size = 0 THEN none
                 ELSE IF max_encoding_size >= DatagramFrame_encoding_size(TRUE, datagram)
                 THEN [queue |-> Tail(q),
                       buf |-> put_data_frame(buf, 0, TRUE, datagram),
                       res |-> Some([frame |-> "WithLen", len |-> datagram,
                                     written |-> DatagramFrame_encoding_size(TRUE, datagram)
                                                 + datagram])]
                 ELSE [queue |-> Tail(q),
                       buf |-> put_data_frame(buf,
                                   max_encoding_size - DatagramFrame_encoding_size(FALSE, datagram),
                                   FALSE, datagram),
                       res |-> Some([frame |-> "NoLen", len |-> datagram,
                                     written |-> max_encoding_size + datagram])]

\* RawAsyncCell::poll_get: Ready once the value is there, else the waker is kept
poll_get(cell) == IsSome(cell)

\* RawAsyncCell::write calls the wakers kept in remote_max_size
wake_datagram_tasks ==
    [t \in Tasks |->
        IF datagram_tasks[t].pc = "pending"
        THEN [datagram_tasks[t] EXCEPT !.pc = "woken"]
        ELSE datagram_tasks[t]]

(***************************************************************************)
(* The mutexes of the stream manager: the OutputTable, the InputTable, the *)
(* listener, the stream-id counters, and the lock of one stream's sender   *)
(* and of one stream's receiver.  A thread inside an operation has the     *)
(* lock steps of that operation left to do.                                *)
(***************************************************************************)
Locks == {"output", "input", "listener", "stream_ids", "sender", "recver"}

\* no thread is inside an operation
LocksFree ==
    /\ lock_owner = [l \in Locks |-> None]
    /\ lock_pc = [t \in Tasks |-> <<>>]

(***************************************************************************)
(* The connection-id router (qconnection/src/router.rs): a concurrent map  *)
(* from ConnectionId to the four packet entries of a connection.           *)
(***************************************************************************)
Conns == {1, 2}
Cids == {1, 2, 3}

\* a connection without a RouterRegistry
NoRegistry == [made |-> FALSE, inspected |-> None]

\* ROUTER: an empty map; no connection has received or issued anything
ArcRouter_new ==
    /\ router = [cid \in Cids |-> None]
    /\ entries = [c \in Conns |-> [i \in 0 .. 3 |-> <<>>]]
    /\ issued_cids = [c \in Conns |-> <<>>]
    /\ registries = [c \in Conns |-> NoRegistry]

(***************************************************************************)
(* The stream manager RawDataStreams (data.rs).                            *)
(***************************************************************************)
\* Parameters: the receive windows of the three kinds of streams
uni_stream_rcvbuf_size == 2
local_bi_stream_rcvbuf_size == 2
remote_bi_stream_rcvbuf_size == 2

\* Parameters: the limits this endpoint advertises for the peer's streams
initial_max_streams_bidi == 1
initial_max_streams_uni == 1

Dirs == {"Bi", "Uni"}
PeerRole == "Server"
\* the values a MAX_STREAMS frame carries
MaxStreamsVals == {0, 1}
LocalSids == {MkSid(LocalRole, d, i) : d \in Dirs, i \in 0 .. MaxStreams - 1}
RemoteBiSids == {MkSid(PeerRole, "Bi", i) : i \in 0 .. MaxStreams - 1}
RemoteUniSids == {MkSid(PeerRole, "Uni", i) : i \in 0 .. MaxStreams - 1}
Sids == LocalSids \cup RemoteBiSids \cup RemoteUniSids
\* the stream ids the peer may name in a frame: the local ones a MAX_STREAMS
\* permits, the remote ones within the limits, and the first one past each limit
FrameSids ==
    {MkSid(LocalRole, d, i) : d \in Dirs, i \in 0 .. SetMax(MaxStreamsVals) - 1}
    \cup {MkSid(PeerRole, "Bi", i) : i \in 0 .. initial_max_streams_bidi}
    \cup {MkSid(PeerRole, "Uni", i) : i \in 0 .. initial_max_streams_uni}

\* inputs of the operations
WriteSizes == {1, 2}
BufSizes == {2, 4}
FlowLimits == {0, 1, 4}
WndSizes == {MaxLen}
AppErrCodes == {7}
ConnErrors == {1, 2}

ResetStreamFrame(sid, code, final_size) ==
    [type |-> "ResetStream", stream_id |-> sid, app_error_code |-> code,
     final_size |-> final_size]

NoWatcher == [pc |-> "none", final_size |-> 0, err_code |-> 0]

\* RawDataStreams::new with the limits the local parameters advertise
RawDataStreams_new(max_streams_bidi, max_streams_uni) ==
    /\ outgoings = {}
    /\ cur_sending_stream = None
    /\ output_err = 0
    /\ senders = [sid \in Sids |-> NoSender]
    /\ input = {}
    /\ input_err = 0
    /\ listener = <<>>
    /\ listener_err = 0
    /\ stream_ids = [local_next |-> [Bi |-> 0, Uni |-> 0],
                     local_max |-> [Bi |-> 0, Uni |-> 0],
                     remote_next |-> [Bi |-> 0, Uni |-> 0],
                     remote_max |-> [Bi |-> max_streams_bidi,
                                     Uni |-> max_streams_uni]]
    /\ ctrl_frames = <<>>
    /\ inflight = {}
    /\ watcher = [sid \in Sids |-> NoWatcher]
    /\ panicked = FALSE
    /\ ret = [op |-> "init"]
    /\ emitted = [sid \in Sids |-> 0]
    /\ nlost = 0
    /\ recvers = [sid \in Sids |-> NoRecver]
    /\ open_tasks = [t \in Tasks |-> NoTask]
    /\ producers = [t \in Tasks |-> NoProducer]
    /\ RawDatagramWriter_new(None)
    /\ LocksFree
    /\ ArcRouter_new

Init == RawDataStreams_new(initial_max_streams_bidi, initial_max_streams_uni)

(***************************************************************************)
(* try_read_data: the round-robin cursor and its token bucket.             *)
(***************************************************************************)
first_key_value ==
    IF outgoings = {} THEN None ELSE Some(<<SetMin(outgoings), DEFAULT_TOKENS>>)

\* outgoings.range(sid..).nth(1)
range_nth_1(sid) ==
    LET rng == {k \in outgoings : k >= sid}
    IN  IF Cardinality(rng) >= 2
        THEN Some(<<SetMin(rng \ {SetMin(rng)}), DEFAULT_TOKENS>>)
        ELSE None

\* the stream try_read_data serves and the tokens it grants: None or
\* Some(<<sid, tokens>>)
select_stream ==
    LET cur == IF IsSome(cur_sending_stream)
               THEN LET sid == Unwrap(cur_sending_stream)[1]
                        tokens == Unwrap(cur_sending_stream)[2]
                    IN  IF tokens = 0 THEN range_nth_1(sid)
                        ELSE IF sid \in outgoings THEN Some(<<sid, tokens>>)
                        ELSE None
               ELSE None
    IN  IF IsSome(cur) THEN cur ELSE first_key_value

\* charging every frame, fresh or not
charged_bytes_all(is_fresh, dat_len) == dat_len

\* the bytes charged to the connection's flow limit
charged_bytes(is_fresh, dat_len) == IF is_fresh THEN dat_len ELSE 0

try_read_data(capacity, flow_limit) ==
    /\ ~panicked
    /\ IF output_err # 0 \/ select_stream = None
       THEN /\ ret' = [op |-> "try_read_data", capacity |-> capacity,
                       flow_limit |-> flow_limit, sid |-> -1, tokens |-> 0,
                       res |-> None]
            /\ UNCHANGED <<senders, cur_sending_stream, inflight>>
       ELSE LET sid == Unwrap(select_stream)[1]
                tokens == Unwrap(select_stream)[2]
                r == Outgoing_try_read(senders[sid], sid, capacity, tokens, flow_limit)
            IN  /\ senders' = [senders EXCEPT ![sid] = r.s]
                /\ IF IsSome(r.res)
                   THEN LET w == Unwrap(r.res)
                        IN  /\ cur_sending_stream' = Some(<<sid, tokens - w.dat_len>>)
                            /\ inflight' = inflight \cup {w.frame}
                            /\ ret' = [op |-> "try_read_data", capacity |-> capacity,
                                       flow_limit |-> flow_limit, sid |-> sid,
                                       tokens |-> tokens,
                                       res |-> Some([frame |-> w.frame,
                                                     written |-> w.written,
                                                     charged |-> charged_bytes(w.is_fresh, w.dat_len)])]
                   ELSE /\ ret' = [op |-> "try_read_data", capacity |-> capacity,
                                   flow_limit |-> flow_limit, sid |-> sid,
                                   tokens |-> tokens, res |-> None]
                        /\ UNCHANGED <<cur_sending_stream, inflight>>
    /\ emitted' = IF IsSome(ret'.res)
                  THEN [emitted EXCEPT ![ret'.sid] = @ + Unwrap(ret'.res).frame.len]
                  ELSE emitted
    /\ UNCHANGED <<outgoings, output_err, input, input_err, listener, listener_err,
                   stream_ids, ctrl_frames, watcher, panicked, nlost>>
    /\ UNCHANGED <<recvers, open_tasks, beside_streams>>

(***************************************************************************)
(* The recovery hooks: a STREAM frame that was emitted is acknowledged or  *)
(* declared lost, a RESET_STREAM frame that was enqueued is acknowledged.  *)
(***************************************************************************)
\* an on_data_acked that never removes the entry
on_data_acked_keep(set, sid, all_data_rcvd) == set

\* the table after on_data_acked: the entry goes when all data was received
on_data_acked_remove(set, sid, all_data_rcvd) ==
    IF all_data_rcvd THEN set \ {sid} ELSE set

on_data_acked(frame) ==
    /\ ~panicked
    /\ frame \in inflight
    /\ inflight' = inflight \ {frame}
    /\ IF output_err = 0 /\ frame.id \in outgoings
       THEN LET r == Outgoing_on_data_acked(senders[frame.id], frame.offset,
                                            frame.offset + frame.len, frame.fin)
            IN  /\ senders' = [senders EXCEPT ![frame.id] = r.s]
                /\ panicked' = r.panic
                /\ outgoings' = on_data_acked_remove(outgoings, frame.id, r.ret)
                /\ ret' = [op |-> "on_data_acked", sid |-> frame.id, ret |-> r.ret]
       ELSE /\ UNCHANGED <<senders, panicked, outgoings>>
            /\ ret' = [op |-> "on_data_acked", sid |-> frame.id, ret |-> FALSE]
    /\ UNCHANGED <<cur_sending_stream, output_err, input, input_err, listener,
                   listener_err, stream_ids, ctrl_frames, watcher, emitted, nlost>>
    /\ UNCHANGED <<recvers, open_tasks, beside_streams>>

may_loss_data(frame) ==
    /\ ~panicked
    /\ frame \in inflight
    /\ inflight' = inflight \ {frame}
    /\ IF output_err = 0 /\ frame.id \in outgoings
       THEN LET r == Outgoing_may_loss_data(senders[frame.id], frame.offset,
                                            frame.offset + frame.len)
            IN  /\ senders' = [senders EXCEPT ![frame.id] = r.s]
                /\ panicked' = r.panic
       ELSE UNCHANGED <<senders, panicked>>
    /\ nlost' = nlost + 1
    /\ ret' = [op |-> "other"]
    /\ UNCHANGED <<outgoings, cur_sending_stream, output_err, input, input_err,
                   listener, listener_err, stream_ids, ctrl_frames, watcher, emitted>>
    /\ UNCHANGED <<recvers, open_tasks, beside_streams>>

\* an on_reset_acked that looks the stream up and leaves it in the table
on_reset_acked_keep(i) ==
    /\ ~panicked
    /\ i \in 1 .. Len(ctrl_frames)
    /\ ctrl_frames[i].type = "ResetStream"
    /\ LET sid == ctrl_frames[i].stream_id
       IN  IF output_err = 0 /\ sid \in outgoings
           THEN LET r == Outgoing_on_reset_acked(senders[sid])
                IN  /\ outgoings' = outgoings
                    /\ senders' = [senders EXCEPT ![sid] = r.s]
                    /\ panicked' = r.panic
                    /\ ret' = [op |-> "on_reset_acked", sid |-> sid]
           ELSE /\ UNCHANGED <<outgoings, senders, panicked>>
                /\ ret' = [op |-> "on_reset_acked", sid |-> sid]
    /\ UNCHANGED <<cur_sending_stream, output_err, input, input_err, listener,
                   listener_err, stream_ids, ctrl_frames, inflight, watcher, emitted, nlost>>
    /\ UNCHANGED <<recvers, open_tasks, beside_streams>>

on_reset_acked(i) ==
    /\ ~panicked
    /\ i \in 1 .. Len(ctrl_frames)
    /\ ctrl_frames[i].type = "ResetStream"
    /\ LET sid == ctrl_frames[i].stream_id
       IN  IF output_err = 0 /\ sid \in outgoings
           THEN LET r == Outgoing_on_reset_acked(senders[sid])
                IN  /\ outgoings' = outgoings \ {sid}
                    /\ senders' = [senders EXCEPT ![sid] = r.s]
                    /\ panicked' = r.panic
                    /\ ret' = [op |-> "on_reset_acked", sid |-> sid]
           ELSE /\ UNCHANGED <<outgoings, senders, panicked>>
                /\ ret' = [op |-> "on_reset_acked", sid |-> sid]
    /\ UNCHANGED <<cur_sending_stream, output_err, input, input_err, listener,
                   listener_err, stream_ids, ctrl_frames, inflight, watcher, emitted, nlost>>
    /\ UNCHANGED <<recvers, open_tasks, beside_streams>>

(***************************************************************************)
(* Stream-id bookkeeping (StreamIds): the remote side accepts an id and    *)
(* returns the ids it skipped, the local side allocates the next id.       *)
(***************************************************************************)
\* remote.try_accept_sid: "Exceed", "Old" or "New" with the indices to create
remote_try_accept_sid(sid) ==
    LET dir == SidDir(sid)
        idx == SidIndex(sid)
    IN  IF idx >= stream_ids.remote_max[dir]
        THEN [kind |-> "Exceed", need_create |-> {}]
        ELSE IF idx < stream_ids.remote_next[dir]
             THEN [kind |-> "Old", need_create |-> {}]
             ELSE [kind |-> "New",
                   need_create |-> {MkSid(SidRole(sid), dir, i) :
                                      i \in stream_ids.remote_next[dir] .. idx}]

RECURSIVE SortedSeq(_)
SortedSeq(S) ==
    IF S = {} THEN <<>> ELSE <<SetMin(S)>> \o SortedSeq(S \ {SetMin(S)})

\* create_sender spawns the task that watches for the application's cancel
SpawnedWatcher == [NoWatcher EXCEPT !.pc = "polling"]

(***************************************************************************)
(* try_accept_sid(sid): what the tables hold after a frame names the       *)
(* remote stream sid.  err is the ExceedLimitError.                        *)
(***************************************************************************)
Tables ==
    [err |-> FALSE, outgoings |-> outgoings, senders |-> senders, input |-> input,
     listener |-> listener, stream_ids |-> stream_ids, watcher |-> watcher,
     recvers |-> recvers]

\* a try_accept_bi_sid that swallows the ExceedLimitError
try_accept_bi_sid_lenient(sid) ==
    IF output_err # 0 \/ input_err # 0 \/ listener_err # 0 THEN Tables
    ELSE LET r == remote_try_accept_sid(sid)
         IN  CASE r.kind = "Exceed" -> Tables
               [] r.kind = "Old" -> Tables
               [] r.kind = "New" ->
                    [err |-> FALSE,
                     outgoings |-> outgoings \cup r.need_create,
                     senders |-> [s \in Sids |->
                                    IF s \in r.need_create THEN NewSender(0)
                                    ELSE senders[s]],
                     input |-> input \cup r.need_create,
                     listener |-> listener \o SortedSeq(r.need_create),
                     stream_ids |-> [stream_ids EXCEPT
                                        !.remote_next["Bi"] = SidIndex(sid) + 1],
                     watcher |-> [s \in Sids |->
                                    IF s \in r.need_create THEN SpawnedWatcher
                                    ELSE watcher[s]],
                     recvers |-> [s \in Sids |->
                                    IF s \in r.need_create
                                    THEN NewRecver(remote_bi_stream_rcvbuf_size)
                                    ELSE recvers[s]]]

\* a try_accept_bi_sid that enters the receiving half only
try_accept_bi_sid_input_only(sid) ==
    IF output_err # 0 \/ input_err # 0 \/ listener_err # 0 THEN Tables
    ELSE LET r == remote_try_accept_sid(sid)
         IN  CASE r.kind = "Exceed" -> [Tables EXCEPT !.err = TRUE]
               [] r.kind = "Old" -> Tables
               [] r.kind = "New" ->
                    [Tables EXCEPT
                        !.input = input \cup r.need_create,
                        !.listener = listener \o SortedSeq(r.need_create),
                        !.stream_ids = [stream_ids EXCEPT
                                          !.remote_next["Bi"] = SidIndex(sid) + 1],
                        !.recvers = [s \in Sids |->
                                       IF s \in r.need_create
                                       THEN NewRecver(remote_bi_stream_rcvbuf_size)
                                       ELSE recvers[s]]]

try_accept_bi_sid(sid) ==
    IF output_err # 0 \/ input_err # 0 \/ listener_err # 0 THEN Tables
    ELSE LET r == remote_try_accept_sid(sid)
         IN  CASE r.kind = "Exceed" -> [Tables EXCEPT !.err = TRUE]
               [] r.kind = "Old" -> Tables
               [] r.kind = "New" ->
                    [err |-> FALSE,
                     outgoings |-> outgoings \cup r.need_create,
                     senders |-> [s \in Sids |->
                                    IF s \in r.need_create THEN NewSender(0)
                                    ELSE senders[s]],
                     input |-> input \cup r.need_create,
                     listener |-> listener \o SortedSeq(r.need_create),
                     stream_ids |-> [stream_ids EXCEPT
                                        !.remote_next["Bi"] = SidIndex(sid) + 1],
                     watcher |-> [s \in Sids |->
                                    IF s \in r.need_create THEN SpawnedWatcher
                                    ELSE watcher[s]],
                     recvers |-> [s \in Sids |->
                                    IF s \in r.need_create
                                    THEN NewRecver(remote_bi_stream_rcvbuf_size)
                                    ELSE recvers[s]]]

\* a try_accept_uni_sid that also enters the streams into the OutputTable
try_accept_uni_sid_with_output(sid) ==
    IF input_err # 0 \/ listener_err # 0 THEN Tables
    ELSE LET r == remote_try_accept_sid(sid)
         IN  CASE r.kind = "Exceed" -> [Tables EXCEPT !.err = TRUE]
               [] r.kind = "Old" -> Tables
               [] r.kind = "New" ->
                    [Tables EXCEPT
                        !.input = input \cup r.need_create,
                        !.outgoings = outgoings \cup r.need_create,
                        !.listener = listener \o SortedSeq(r.need_create),
                        !.stream_ids = [stream_ids EXCEPT
                                          !.remote_next["Uni"] = SidIndex(sid) + 1],
                        !.recvers = [s \in Sids |->
                                       IF s \in r.need_create
                                       THEN NewRecver(uni_stream_rcvbuf_size)
                                       ELSE recvers[s]]]

try_accept_uni_sid(sid) ==
    IF input_err # 0 \/ listener_err # 0 THEN Tables
    ELSE LET r == remote_try_accept_sid(sid)
         IN  CASE r.kind = "Exceed" -> [Tables EXCEPT !.err = TRUE]
               [] r.kind = "Old" -> Tables
               [] r.kind = "New" ->
                    [Tables EXCEPT
                        !.input = input \cup r.need_create,
                        !.listener = listener \o SortedSeq(r.need_create),
                        !.stream_ids = [stream_ids EXCEPT
                                          !.remote_next["Uni"] = SidIndex(sid) + 1],
                        !.recvers = [s \in Sids |->
                                       IF s \in r.need_create
                                       THEN NewRecver(uni_stream_rcvbuf_size)
                                       ELSE recvers[s]]]

try_accept_sid(sid) ==
    IF SidDir(sid) = "Bi" THEN try_accept_bi_sid(sid) ELSE try_accept_uni_sid(sid)

SetTables(tb) ==
    /\ outgoings' = tb.outgoings
    /\ senders' = tb.senders
    /\ input' = tb.input
    /\ listener' = tb.listener
    /\ stream_ids' = tb.stream_ids
    /\ watcher' = tb.watcher
    /\ recvers' = tb.recvers

(***************************************************************************)
(* recv_stream_control: STOP_SENDING, MAX_STREAM_DATA and MAX_STREAMS.     *)
(***************************************************************************)
\* the RESET_STREAM frame the StopSending arm enqueues after stop() of s
stop_sending_reset_frame(sid, s) == ResetStreamFrame(sid, 0, 0)

\* a StopSending arm that refuses every unidirectional stream
recv_stream_control_StopSending_no_uni(sid, code) ==
    /\ ~panicked
    /\ IF SidDir(sid) = "Uni"
       THEN /\ ret' = [op |-> "StopSending", sid |-> sid, err |-> "StreamState"]
            /\ UNCHANGED <<outgoings, senders, input, listener, stream_ids, recvers, watcher,
                           ctrl_frames, panicked>>
       ELSE LET tb == IF SidRole(sid) # LocalRole THEN try_accept_sid(sid) ELSE Tables
            IN  IF tb.err
                THEN /\ ret' = [op |-> "StopSending", sid |-> sid, err |-> "StreamLimit"]
                     /\ UNCHANGED <<outgoings, senders, input, listener, stream_ids,
                                    recvers, watcher, ctrl_frames, panicked>>
                ELSE IF output_err = 0 /\ sid \in tb.outgoings
                     THEN LET r == Outgoing_stop(tb.senders[sid])
                          IN  /\ SetTables([tb EXCEPT !.senders[sid] = r.s])
                              /\ panicked' = r.panic
                              /\ ctrl_frames' =
                                    IF r.ret
                                    THEN Append(ctrl_frames,
                                                stop_sending_reset_frame(sid, tb.senders[sid]))
                                    ELSE ctrl_frames
                              /\ ret' = [op |-> "StopSending", sid |-> sid,
                                         err |-> "", stopped |-> r.ret]
                     ELSE /\ SetTables(tb)
                          /\ UNCHANGED <<ctrl_frames, panicked>>
                          /\ ret' = [op |-> "StopSending", sid |-> sid,
                                     err |-> "", stopped |-> FALSE]
    /\ UNCHANGED <<cur_sending_stream, output_err, input_err, listener_err,
                   inflight, emitted, nlost>>
    /\ UNCHANGED <<open_tasks, beside_streams>>

recv_stream_control_StopSending(sid, code) ==
    /\ ~panicked
    /\ IF SidRole(sid) # LocalRole /\ SidDir(sid) = "Uni"
       THEN /\ ret' = [op |-> "StopSending", sid |-> sid, err |-> "StreamState"]
            /\ UNCHANGED <<outgoings, senders, input, listener, stream_ids, recvers, watcher,
                           ctrl_frames, panicked>>
       ELSE LET tb == IF SidRole(sid) # LocalRole THEN try_accept_sid(sid) ELSE Tables
            IN  IF tb.err
                THEN /\ ret' = [op |-> "StopSending", sid |-> sid, err |-> "StreamLimit"]
                     /\ UNCHANGED <<outgoings, senders, input, listener, stream_ids,
                                    recvers, watcher, ctrl_frames, panicked>>
                ELSE IF output_err = 0 /\ sid \in tb.outgoings
                     THEN LET r == Outgoing_stop(tb.senders[sid])
                          IN  /\ SetTables([tb EXCEPT !.senders[sid] = r.s])
                              /\ panicked' = r.panic
                              /\ ctrl_frames' =
                                    IF r.ret
                                    THEN Append(ctrl_frames,
                                                stop_sending_reset_frame(sid, tb.senders[sid]))
                                    ELSE ctrl_frames
                              /\ ret' = [op |-> "StopSending", sid |-> sid,
                                         err |-> "", stopped |-> r.ret]
                     ELSE /\ SetTables(tb)
                          /\ UNCHANGED <<ctrl_frames, panicked>>
                          /\ ret' = [op |-> "StopSending", sid |-> sid,
                                     err |-> "", stopped |-> FALSE]
    /\ UNCHANGED <<cur_sending_stream, output_err, input_err, listener_err,
                   inflight, emitted, nlost>>
    /\ UNCHANGED <<open_tasks, beside_streams>>

recv_stream_control_MaxStreamData(sid, max_stream_data) ==
    /\ ~panicked
    /\ IF SidRole(sid) # LocalRole /\ SidDir(sid) = "Uni"
       THEN /\ ret' = [op |-> "MaxStreamData", sid |-> sid, err |-> "StreamState"]
            /\ UNCHANGED <<outgoings, senders, input, listener, stream_ids, recvers, watcher>>
       ELSE LET tb == IF SidRole(sid) # LocalRole THEN try_accept_sid(sid) ELSE Tables
            IN  IF tb.err
                THEN /\ ret' = [op |-> "MaxStreamData", sid |-> sid,
                                err |-> "StreamLimit"]
                     /\ UNCHANGED <<outgoings, senders, input, listener, stream_ids,
                                    recvers, watcher>>
                ELSE /\ ret' = [op |-> "MaxStreamData", sid |-> sid, err |-> "",
                                updated |-> output_err = 0 /\ sid \in tb.outgoings]
                     /\ IF output_err = 0 /\ sid \in tb.outgoings
                        THEN SetTables([tb EXCEPT !.senders[sid] =
                                Outgoing_update_window(tb.senders[sid], max_stream_data)])
                        ELSE SetTables(tb)
    /\ UNCHANGED <<cur_sending_stream, output_err, input_err, listener_err,
                   ctrl_frames, inflight, panicked, emitted, nlost>>
    /\ UNCHANGED <<open_tasks, beside_streams>>

\* local.permit_max_sid: the limit only grows
permit_max_sid(dir, val) ==
    [stream_ids EXCEPT !.local_max[dir] = Max(stream_ids.local_max[dir], val)]

\* a permit_max_sid that keeps one waker: it wakes one of the waiting tasks
permit_max_sid_wake_one(dir, val) ==
    LET waiting == {t \in Tasks : open_tasks[t].pc = "pending" /\ open_tasks[t].dir = dir}
    IN  [t \in Tasks |->
            IF /\ val > stream_ids.local_max[dir]
               /\ waiting # {}
               /\ t = SetMax(waiting)
            THEN [open_tasks[t] EXCEPT !.pc = "woken"]
            ELSE open_tasks[t]]

\* a limit that grew wakes the tasks suspended in poll_alloc_sid(dir)
permit_max_sid_wake(dir, val) ==
    [t \in Tasks |->
        IF /\ val > stream_ids.local_max[dir]
           /\ open_tasks[t].pc = "pending"
           /\ open_tasks[t].dir = dir
        THEN [open_tasks[t] EXCEPT !.pc = "woken"]
        ELSE open_tasks[t]]

recv_stream_control_MaxStreams(dir, val) ==
    /\ ~panicked
    /\ stream_ids' = permit_max_sid(dir, val)
    /\ open_tasks' = permit_max_sid_wake(dir, val)
    /\ UNCHANGED beside_streams
    /\ ret' = [op |-> "other"]
    /\ UNCHANGED <<outgoings, cur_sending_stream, output_err, senders, input,
                   input_err, listener, listener_err, ctrl_frames, inflight,
                   watcher, panicked, emitted, nlost>>
    /\ UNCHANGED recvers

(***************************************************************************)
(* recv_data and recv_stream_control: STREAM, RESET_STREAM and             *)
(* STREAM_DATA_BLOCKED, the frames of the peer as the sender of a stream.  *)
(***************************************************************************)
\* an accept_as_sender without the test of the direction of a local sid
accept_as_sender_any_local(sid) ==
    IF SidRole(sid) # LocalRole
    THEN LET tb == try_accept_sid(sid)
         IN  [tb |-> tb, err |-> IF tb.err THEN "StreamLimit" ELSE ""]
    ELSE [tb |-> Tables, err |-> ""]

\* what the peer's frame as a sender finds: the tables after try_accept_sid
\* of a remote sid, StreamLimit for an ExceedLimitError (wrapper_error), or
\* StreamState for a local unidirectional sid
accept_as_sender(sid) ==
    IF SidRole(sid) # LocalRole
    THEN LET tb == try_accept_sid(sid)
         IN  [tb |-> tb, err |-> IF tb.err THEN "StreamLimit" ELSE ""]
    ELSE [tb |-> Tables, err |-> IF SidDir(sid) = "Uni" THEN "StreamState" ELSE ""]

recv_data(sid, offset, len, fin) ==
    /\ ~panicked
    /\ LET a == accept_as_sender(sid)
       IN  IF a.err # ""
           THEN /\ ret' = [op |-> "recv_data", sid |-> sid, err |-> a.err, n |-> 0]
                /\ UNCHANGED <<outgoings, senders, input, listener, stream_ids,
                               recvers, watcher>>
           ELSE IF input_err = 0 /\ sid \in a.tb.input
                THEN LET r == Incoming_recv_data(a.tb.recvers[sid], offset, len, fin)
                     IN  /\ SetTables([a.tb EXCEPT !.recvers[sid] = r.r])
                         /\ ret' = [op |-> "recv_data", sid |-> sid, err |-> r.err,
                                    n |-> r.n]
                ELSE /\ SetTables(a.tb)
                     /\ ret' = [op |-> "recv_data", sid |-> sid, err |-> "", n |-> 0]
    /\ UNCHANGED <<cur_sending_stream, output_err, input_err, listener_err,
                   ctrl_frames, inflight, panicked, emitted, nlost, open_tasks,
                   beside_streams>>

\* the InputTable after the ResetStream arm took the entry of sid and
\* recv_reset returned err
reset_stream_input(set, sid, err) == set \ {sid}

recv_stream_control_ResetStream(sid, final_size) ==
    /\ ~panicked
    /\ LET a == accept_as_sender(sid)
       IN  IF a.err # ""
           THEN /\ ret' = [op |-> "ResetStream", sid |-> sid, err |-> a.err,
                           routed |-> FALSE]
                /\ UNCHANGED <<outgoings, senders, input, listener, stream_ids,
                               recvers, watcher>>
           ELSE IF input_err = 0 /\ sid \in a.tb.input
                THEN LET r == Incoming_recv_reset(a.tb.recvers[sid], final_size)
                     IN  /\ SetTables([a.tb EXCEPT
                                !.recvers[sid] = r.r,
                                !.input = reset_stream_input(a.tb.input, sid, r.err)])
                         /\ ret' = [op |-> "ResetStream", sid |-> sid, err |-> r.err,
                                    routed |-> TRUE]
                ELSE /\ SetTables(a.tb)
                     /\ ret' = [op |-> "ResetStream", sid |-> sid, err |-> "",
                                routed |-> FALSE]
    /\ UNCHANGED <<cur_sending_stream, output_err, input_err, listener_err,
                   ctrl_frames, inflight, panicked, emitted, nlost, open_tasks,
                   beside_streams>>

recv_stream_control_StreamDataBlocked(sid) ==
    /\ ~panicked
    /\ LET a == accept_as_sender(sid)
       IN  IF a.err # ""
           THEN /\ ret' = [op |-> "StreamDataBlocked", sid |-> sid, err |-> a.err]
                /\ UNCHANGED <<outgoings, senders, input, listener, stream_ids,
                               recvers, watcher>>
           ELSE /\ SetTables(a.tb)
                /\ ret' = [op |-> "StreamDataBlocked", sid |-> sid, err |-> ""]
    /\ UNCHANGED <<cur_sending_stream, output_err, input_err, listener_err,
                   ctrl_frames, inflight, panicked, emitted, nlost, open_tasks,
                   beside_streams>>

(***************************************************************************)
(* on_conn_error: every table is replaced by the error, once.              *)
(***************************************************************************)
\* an on_conn_error that stores the latest error
on_conn_error_replace(e) ==
    /\ ~panicked
    /\ IF output_err # 0 \/ input_err # 0 \/ listener_err # 0
       THEN /\ output_err' = e
            /\ input_err' = e
            /\ listener_err' = e
            /\ UNCHANGED <<outgoings, cur_sending_stream, senders, input, listener,
                           recvers, producers>>
       ELSE /\ senders' = [s \in Sids |->
                             IF s \in outgoings THEN Outgoing_on_conn_error(senders[s])
                             ELSE senders[s]]
            /\ producers' = wake_all({s \in outgoings : wakes_on_conn_error(senders[s])})
            /\ outgoings' = {}
            /\ cur_sending_stream' = None
            /\ output_err' = e
            /\ input' = {}
            /\ recvers' = [s \in Sids |->
                             IF s \in input THEN Incoming_on_conn_error(recvers[s])
                             ELSE recvers[s]]
            /\ input_err' = e
            /\ listener' = <<>>
            /\ listener_err' = e
    /\ ret' = [op |-> "other"]
    /\ UNCHANGED <<stream_ids, ctrl_frames, inflight, watcher, panicked, emitted, nlost>>
    /\ UNCHANGED <<open_tasks, datagram_vars, beside_channels>>

on_conn_error(e) ==
    /\ ~panicked
    /\ IF output_err # 0 \/ input_err # 0 \/ listener_err # 0
       THEN UNCHANGED <<outgoings, cur_sending_stream, output_err, senders, input,
                        input_err, listener, listener_err, recvers, producers>>
       ELSE /\ senders' = [s \in Sids |->
                             IF s \in outgoings THEN Outgoing_on_conn_error(senders[s])
                             ELSE senders[s]]
            /\ producers' = wake_all({s \in outgoings : wakes_on_conn_error(senders[s])})
            /\ outgoings' = {}
            /\ cur_sending_stream' = None
            /\ output_err' = e
            /\ input' = {}
            /\ recvers' = [s \in Sids |->
                             IF s \in input THEN Incoming_on_conn_error(recvers[s])
                             ELSE recvers[s]]
            /\ input_err' = e
            /\ listener' = <<>>
            /\ listener_err' = e
    /\ ret' = [op |-> "other"]
    /\ UNCHANGED <<stream_ids, ctrl_frames, inflight, watcher, panicked, emitted, nlost>>
    /\ UNCHANGED <<open_tasks, datagram_vars, beside_channels>>

(***************************************************************************)
(* poll_open_bi_stream / poll_open_uni_stream.                             *)
(***************************************************************************)
\* local.poll_alloc_sid: Pending (None) while the peer's limit is reached
poll_alloc_sid(dir) ==
    IF stream_ids.local_next[dir] < stream_ids.local_max[dir]
    THEN Some(MkSid(LocalRole, dir, stream_ids.local_next[dir]))
    ELSE None

\* a poll_open_bi_stream that asks poll_alloc_sid for a unidirectional id
poll_open_bi_stream_uni_ids(snd_wnd_size) ==
    /\ ~panicked
    /\ IF output_err # 0 \/ input_err # 0
       THEN /\ ret' = [op |-> "open_bi", res |-> "Err",
                       err |-> IF output_err # 0 THEN output_err ELSE input_err]
            /\ UNCHANGED <<outgoings, senders, input, stream_ids, watcher, recvers>>
       ELSE LET a == poll_alloc_sid("Uni")
            IN  IF IsSome(a)
                THEN /\ stream_ids' = [stream_ids EXCEPT !.local_next["Uni"] = @ + 1]
                     /\ senders' = [senders EXCEPT ![Unwrap(a)] = NewSender(snd_wnd_size)]
                     /\ watcher' = [watcher EXCEPT ![Unwrap(a)] = SpawnedWatcher]
                     /\ outgoings' = outgoings \cup {Unwrap(a)}
                     /\ input' = input \cup {Unwrap(a)}
                     /\ recvers' = [recvers EXCEPT
                                      ![Unwrap(a)] = NewRecver(local_bi_stream_rcvbuf_size)]
                     /\ ret' = [op |-> "open_bi", res |-> "Ok", sid |-> Unwrap(a)]
                ELSE /\ ret' = [op |-> "open_bi", res |-> "Pending"]
                     /\ UNCHANGED <<outgoings, senders, input, stream_ids, watcher,
                                    recvers>>
    /\ UNCHANGED <<cur_sending_stream, output_err, input_err, listener, listener_err,
                   ctrl_frames, inflight, panicked, emitted, nlost>>

\* a poll_open_bi_stream that allocates the id before it looks at the tables
poll_open_bi_stream_alloc_first(snd_wnd_size) ==
    /\ ~panicked
    /\ IF output_err # 0 \/ input_err # 0
       THEN /\ ret' = [op |-> "open_bi", res |-> "Err",
                       err |-> IF output_err # 0 THEN output_err ELSE input_err]
            /\ stream_ids' = IF IsSome(poll_alloc_sid("Bi"))
                             THEN [stream_ids EXCEPT !.local_next["Bi"] = @ + 1]
                             ELSE stream_ids
            /\ UNCHANGED <<outgoings, senders, input, watcher, recvers>>
       ELSE LET a == poll_alloc_sid("Bi")
            IN  IF IsSome(a)
                THEN /\ stream_ids' = [stream_ids EXCEPT !.local_next["Bi"] = @ + 1]
                     /\ senders' = [senders EXCEPT ![Unwrap(a)] = NewSender(snd_wnd_size)]
                     /\ watcher' = [watcher EXCEPT ![Unwrap(a)] = SpawnedWatcher]
                     /\ outgoings' = outgoings \cup {Unwrap(a)}
                     /\ input' = input \cup {Unwrap(a)}
                     /\ recvers' = [recvers EXCEPT
                                      ![Unwrap(a)] = NewRecver(local_bi_stream_rcvbuf_size)]
                     /\ ret' = [op |-> "open_bi", res |-> "Ok", sid |-> Unwrap(a)]
                ELSE /\ ret' = [op |-> "open_bi", res |-> "Pending"]
                     /\ UNCHANGED <<outgoings, senders, input, stream_ids, watcher,
                                    recvers>>
    /\ UNCHANGED <<cur_sending_stream, output_err, input_err, listener, listener_err,
                   ctrl_frames, inflight, panicked, emitted, nlost>>

poll_open_bi_stream(snd_wnd_size) ==
    /\ ~panicked
    /\ IF output_err # 0 \/ input_err # 0
       THEN /\ ret' = [op |-> "open_bi", res |-> "Err",
                       err |-> IF output_err # 0 THEN output_err ELSE input_err]
            /\ UNCHANGED <<outgoings, senders, input, stream_ids, watcher, recvers>>
       ELSE LET a == poll_alloc_sid("Bi")
            IN  IF IsSome(a)
                THEN /\ stream_ids' = [stream_ids EXCEPT !.local_next["Bi"] = @ + 1]
                     /\ senders' = [senders EXCEPT ![Unwrap(a)] = NewSender(snd_wnd_size)]
                     /\ watcher' = [watcher EXCEPT ![Unwrap(a)] = SpawnedWatcher]
                     /\ outgoings' = outgoings \cup {Unwrap(a)}
                     /\ input' = input \cup {Unwrap(a)}
                     /\ recvers' = [recvers EXCEPT
                                      ![Unwrap(a)] = NewRecver(local_bi_stream_rcvbuf_size)]
                     /\ ret' = [op |-> "open_bi", res |-> "Ok", sid |-> Unwrap(a)]
                ELSE /\ ret' = [op |-> "open_bi", res |-> "Pending"]
                     /\ UNCHANGED <<outgoings, senders, input, stream_ids, watcher,
                                    recvers>>
    /\ UNCHANGED <<cur_sending_stream, output_err, input_err, listener, listener_err,
                   ctrl_frames, inflight, panicked, emitted, nlost>>

\* a poll_open_uni_stream that asks for an id before it looks at the table
poll_open_uni_stream_alloc_first(snd_wnd_size) ==
    /\ ~panicked
    /\ IF poll_alloc_sid("Uni") = None
       THEN /\ ret' = [op |-> "open_uni", res |-> "Pending"]
            /\ UNCHANGED <<outgoings, senders, stream_ids, watcher>>
       ELSE IF output_err # 0
       THEN /\ ret' = [op |-> "open_uni", res |-> "Err", err |-> output_err]
            /\ UNCHANGED <<outgoings, senders, stream_ids, watcher>>
       ELSE LET a == poll_alloc_sid("Uni")
            IN  /\ stream_ids' = [stream_ids EXCEPT !.local_next["Uni"] = @ + 1]
                /\ senders' = [senders EXCEPT ![Unwrap(a)] = NewSender(snd_wnd_size)]
                /\ watcher' = [watcher EXCEPT ![Unwrap(a)] = SpawnedWatcher]
                /\ outgoings' = outgoings \cup {Unwrap(a)}
                /\ ret' = [op |-> "open_uni", res |-> "Ok", sid |-> Unwrap(a)]
    /\ UNCHANGED <<cur_sending_stream, output_err, input, input_err, listener,
                   listener_err, ctrl_frames, inflight, panicked, emitted, nlost>>
    /\ UNCHANGED recvers

poll_open_uni_stream(snd_wnd_size) ==
    /\ ~panicked
    /\ IF output_err # 0
       THEN /\ ret' = [op |-> "open_uni", res |-> "Err", err |-> output_err]
            /\ UNCHANGED <<outgoings, senders, stream_ids, watcher>>
       ELSE LET a == poll_alloc_sid("Uni")
            IN  IF IsSome(a)
                THEN /\ stream_ids' = [stream_ids EXCEPT !.local_next["Uni"] = @ + 1]
                     /\ senders' = [senders EXCEPT ![Unwrap(a)] = NewSender(snd_wnd_size)]
                     /\ watcher' = [watcher EXCEPT ![Unwrap(a)] = SpawnedWatcher]
                     /\ outgoings' = outgoings \cup {Unwrap(a)}
                     /\ ret' = [op |-> "open_uni", res |-> "Ok", sid |-> Unwrap(a)]
                ELSE /\ ret' = [op |-> "open_uni", res |-> "Pending"]
                     /\ UNCHANGED <<outgoings, senders, stream_ids, watcher>>
    /\ UNCHANGED <<cur_sending_stream, output_err, input, input_err, listener,
                   listener_err, ctrl_frames, inflight, panicked, emitted, nlost>>
    /\ UNCHANGED recvers

(***************************************************************************)
(* The application's side of a send stream (Writer) and the cancel watcher *)
(* that create_sender spawns.                                              *)
(***************************************************************************)
writer_write(s, n) == [s EXCEPT !.len = s.len + n]

writer_shutdown(s) ==
    CASE s.st = "Ready" -> [s EXCEPT !.shut = TRUE]
      [] s.st = "Sending" /\ s.sent = s.len /\ s.lost = {} ->
            [s EXCEPT !.st = "DataSent", !.shut = TRUE]
      [] OTHER -> s

writer_cancel(s, code) ==
    IF s.st \in {"Ready", "Sending", "DataSent"} /\ s.cancel = -1
    THEN [s EXCEPT !.cancel = code]
    ELSE s

RECURSIVE TotalWritten(_)
TotalWritten(S) ==
    IF S = {} THEN 0
    ELSE LET x == CHOOSE y \in S : TRUE
         IN  senders[x].len + TotalWritten(S \ {x})

AppUnchanged ==
    UNCHANGED <<outgoings, cur_sending_stream, output_err, input, input_err,
                listener, listener_err, stream_ids, ctrl_frames, inflight, watcher,
                panicked, emitted, nlost>>

app_write(sid, n) ==
    /\ ~panicked
    /\ senders[sid].st \in {"Ready", "Sending"}
    /\ ~senders[sid].shut
    /\ senders[sid].cancel = -1
    /\ senders[sid].len + n <= senders[sid].wnd
    /\ senders' = [senders EXCEPT ![sid] = writer_write(senders[sid], n)]
    /\ ret' = [op |-> "other"]
    /\ AppUnchanged
    /\ UNCHANGED <<recvers, open_tasks, beside_streams>>

app_shutdown(sid) ==
    /\ ~panicked
    /\ senders[sid].cancel = -1
    /\ writer_shutdown(senders[sid]) # senders[sid]
    /\ senders' = [senders EXCEPT ![sid] = writer_shutdown(senders[sid])]
    /\ ret' = [op |-> "other"]
    /\ AppUnchanged
    /\ UNCHANGED <<recvers, open_tasks, beside_streams>>

app_cancel(sid, code) ==
    /\ ~panicked
    /\ writer_cancel(senders[sid], code) # senders[sid]
    /\ senders' = [senders EXCEPT ![sid] = writer_cancel(senders[sid], code)]
    /\ ret' = [op |-> "other"]
    /\ AppUnchanged
    /\ UNCHANGED <<recvers, open_tasks, beside_streams>>

\* the watcher's await of is_cancelled_by_app() completes
cancel_watcher_poll(sid) ==
    /\ ~panicked
    /\ watcher[sid].pc = "polling"
    /\ LET r == IsCancelled_poll(senders[sid])
       IN  /\ r.ready
           /\ senders' = [senders EXCEPT ![sid] = r.s]
           /\ watcher' = [watcher EXCEPT ![sid] =
                IF IsSome(r.out)
                THEN [pc |-> "send", final_size |-> Unwrap(r.out).final_size,
                      err_code |-> Unwrap(r.out).err_code]
                ELSE [NoWatcher EXCEPT !.pc = "done"]]
    /\ ret' = [op |-> "other"]
    /\ UNCHANGED <<outgoings, cur_sending_stream, output_err, input, input_err,
                   listener, listener_err, stream_ids, ctrl_frames, inflight,
                   panicked, emitted, nlost>>
    /\ UNCHANGED <<recvers, open_tasks, beside_streams>>

\* the watcher enqueues the RESET_STREAM of the application's cancel
cancel_watcher_send(sid) ==
    /\ ~panicked
    /\ watcher[sid].pc = "send"
    /\ ctrl_frames' = Append(ctrl_frames,
            ResetStreamFrame(sid, watcher[sid].err_code, watcher[sid].final_size))
    /\ watcher' = [watcher EXCEPT ![sid] = [NoWatcher EXCEPT !.pc = "done"]]
    /\ ret' = [op |-> "other"]
    /\ UNCHANGED <<outgoings, cur_sending_stream, output_err, senders, input,
                   input_err, listener, listener_err, stream_ids, inflight,
                   panicked, emitted, nlost>>
    /\ UNCHANGED <<recvers, open_tasks, beside_streams>>

(***************************************************************************)
(* The specification of the stream manager.  Spec follows one send stream  *)
(* through its whole life, byte by byte: the stream is a local             *)
(* bidirectional, a local unidirectional or a remote bidirectional one,    *)
(* and no second send stream is created beside it (the runs with several   *)
(* streams are SpecSched and SpecFair).                                    *)
(***************************************************************************)
NoSendStream == \A s \in Sids : senders[s].st = "None"
\* a frame for sid creates no second send stream
OpensNoSecond(sid) ==
    IF \/ SidRole(sid) = LocalRole
       \/ SidDir(sid) = "Uni"
       \/ SidIndex(sid) >= stream_ids.remote_max["Bi"]
    THEN TRUE
    ELSE senders[sid].st # "None" \/ NoSendStream

TryReadData == \E c \in BufSizes, f \in FlowLimits : try_read_data(c, f)
OnDataAcked == \E fr \in inflight : on_data_acked(fr)
MayLossData == nlost < MaxLoss /\ \E fr \in inflight : may_loss_data(fr)
OnResetAcked == \E i \in 1 .. Len(ctrl_frames) : on_reset_acked(i)
RecvStopSending ==
    \E sid \in FrameSids, code \in AppErrCodes :
        OpensNoSecond(sid) /\ recv_stream_control_StopSending(sid, code)
RecvMaxStreamData ==
    \E sid \in FrameSids, m \in WndSizes :
        OpensNoSecond(sid) /\ recv_stream_control_MaxStreamData(sid, m)
RecvMaxStreams ==
    \E d \in Dirs, v \in MaxStreamsVals : recv_stream_control_MaxStreams(d, v)
OnConnError == \E e \in ConnErrors : on_conn_error(e)
OpenBi == NoSendStream /\ UNCHANGED <<open_tasks, beside_streams>> /\ \E w \in WndSizes : poll_open_bi_stream(w)
OpenUni == NoSendStream /\ UNCHANGED <<open_tasks, beside_streams>> /\ \E w \in WndSizes : poll_open_uni_stream(w)
AppWrite ==
    \E sid \in Sids, n \in WriteSizes :
        TotalWritten(Sids) + n <= MaxLen /\ app_write(sid, n)
AppShutdown == \E sid \in Sids : app_shutdown(sid)
AppCancel == \E sid \in Sids, code \in AppErrCodes : app_cancel(sid, code)
CancelWatcherPoll == \E sid \in Sids : cancel_watcher_poll(sid)
CancelWatcherSend == \E sid \in Sids : cancel_watcher_send(sid)

Next ==
    \/ TryReadData
    \/ OnDataAcked
    \/ MayLossData
    \/ OnResetAcked
    \/ RecvStopSending
    \/ RecvMaxStreamData
    \/ RecvMaxStreams
    \/ OnConnError
    \/ OpenBi
    \/ OpenUni
    \/ AppWrite
    \/ AppShutdown
    \/ AppCancel
    \/ CancelWatcherPoll
    \/ CancelWatcherSend

Spec == Init /\ [][Next]_vars

(***************************************************************************)
(* The scheduler over several streams.  SpecSched starts after the         *)
(* application opened the local streams 0 and 2 and the peer opened the    *)
(* bidirectional stream 1, each with a window of one quantum; the          *)
(* application writes a quantum at a time, so that a visit of the cursor   *)
(* can use up its tokens.  OpenedStreams is the state those opens lead to  *)
(* from Init, with ret and the counters as at the start.                   *)
(***************************************************************************)
SchedSids == {MkSid(LocalRole, "Bi", 0), MkSid(PeerRole, "Bi", 0), MkSid(LocalRole, "Uni", 0)}
SchedWriteSizes == {DEFAULT_TOKENS}
SchedBufSizes == {2, DEFAULT_TOKENS + 904}
SchedFlowLimits == {2 * DEFAULT_TOKENS}

OpenedStreams(S, len, wnd) ==
    /\ outgoings = S
    /\ cur_sending_stream = None
    /\ output_err = 0
    /\ senders = [sid \in Sids |->
                    IF sid \in S THEN [NewSender(wnd) EXCEPT !.len = len] ELSE NoSender]
    /\ input = {sid \in S : SidDir(sid) = "Bi"}
    /\ input_err = 0
    /\ listener = SortedSeq({sid \in S : SidRole(sid) # LocalRole})
    /\ listener_err = 0
    /\ stream_ids = [local_next |-> [Bi |-> 1, Uni |-> 1],
                     local_max |-> [Bi |-> 1, Uni |-> 1],
                     remote_next |-> [Bi |-> 1, Uni |-> 0],
                     remote_max |-> [Bi |-> initial_max_streams_bidi,
                                     Uni |-> initial_max_streams_uni]]
    /\ ctrl_frames = <<>>
    /\ inflight = {}
    /\ watcher = [sid \in Sids |-> IF sid \in S THEN SpawnedWatcher ELSE NoWatcher]
    /\ panicked = FALSE
    /\ ret = [op |-> "init"]
    /\ emitted = [sid \in Sids |-> 0]
    /\ nlost = 0
    /\ recvers = [sid \in Sids |->
                    IF sid \in S /\ SidDir(sid) = "Bi"
                    THEN NewRecver(IF SidRole(sid) = LocalRole
                                   THEN local_bi_stream_rcvbuf_size
                                   ELSE remote_bi_stream_rcvbuf_size)
                    ELSE NoRecver]
    /\ open_tasks = [t \in Tasks |-> NoTask]
    /\ producers = [t \in Tasks |-> NoProducer]
    /\ RawDatagramWriter_new(None)
    /\ LocksFree
    /\ ArcRouter_new

InitSched == OpenedStreams(SchedSids, 0, DEFAULT_TOKENS)

SchedWrite == \E sid \in Sids, n \in SchedWriteSizes : app_write(sid, n)
SchedTryReadData ==
    \E c \in SchedBufSizes, f \in SchedFlowLimits : try_read_data(c, f)

NextSched ==
    \/ SchedWrite
    \/ AppShutdown
    \/ SchedTryReadData
    \/ OnDataAcked

SpecSched == InitSched /\ [][NextSched]_vars

(***************************************************************************)
(* Fairness runs.  SpecFair starts with the same three streams, each       *)
(* holding MaxRounds + 1 quanta of written data inside its window, and     *)
(* calls try_read_data while every stream has a quantum of fresh data      *)
(* left; no stream is added or removed.                                    *)
(***************************************************************************)
FairLen == (MaxRounds + 1) * DEFAULT_TOKENS
FairBufSizes == {2, DEFAULT_TOKENS - 1096, DEFAULT_TOKENS + 904}
FairFlowLimits == {FairLen}

InitFair == OpenedStreams(SchedSids, FairLen, FairLen)

AllReady ==
    \A sid \in outgoings : senders[sid].len - senders[sid].sent >= DEFAULT_TOKENS

FairTryReadData ==
    AllReady /\ \E c \in FairBufSizes, f \in FairFlowLimits : try_read_data(c, f)
FairMayLossData == AllReady /\ MayLossData

NextFair ==
    \/ FairTryReadData
    \/ FairMayLossData

SpecFair == InitFair /\ [][NextFair]_vars

(***************************************************************************)
(* SpecIds: the frames of the peer and the stream ids they name.  The      *)
(* connection advertises MaxStreams streams of each direction, so that a   *)
(* frame can skip an id, and the peer names every id up to the first one   *)
(* past the limit.  The run starts when the application has opened its     *)
(* first bidirectional and its first unidirectional stream.  Received data *)
(* and resets follow one receiving stream.                                 *)
(***************************************************************************)
IdsLocalSids == {MkSid(LocalRole, d, 0) : d \in Dirs}
IdsFrameSids ==
    IdsLocalSids \cup {MkSid(PeerRole, d, i) : d \in Dirs, i \in 0 .. MaxStreams}
IdsDataFrames ==
    {[offset |-> 0, len |-> 1, fin |-> FALSE],
     [offset |-> 0, len |-> 2, fin |-> TRUE],
     [offset |-> 1, len |-> 2, fin |-> FALSE]}
IdsFinalSizes == {0, 2}

\* RawDataStreams::new, then MAX_STREAMS of 1 for both directions, open_bi
\* and open_uni
InitIds ==
    /\ outgoings = IdsLocalSids
    /\ cur_sending_stream = None
    /\ output_err = 0
    /\ senders = [sid \in Sids |-> IF sid \in IdsLocalSids THEN NewSender(0) ELSE NoSender]
    /\ input = {sid \in IdsLocalSids : SidDir(sid) = "Bi"}
    /\ input_err = 0
    /\ listener = <<>>
    /\ listener_err = 0
    /\ stream_ids = [local_next |-> [Bi |-> 1, Uni |-> 1],
                     local_max |-> [Bi |-> 1, Uni |-> 1],
                     remote_next |-> [Bi |-> 0, Uni |-> 0],
                     remote_max |-> [Bi |-> MaxStreams, Uni |-> MaxStreams]]
    /\ ctrl_frames = <<>>
    /\ inflight = {}
    /\ watcher = [sid \in Sids |->
                    IF sid \in IdsLocalSids THEN SpawnedWatcher ELSE NoWatcher]
    /\ panicked = FALSE
    /\ ret = [op |-> "init"]
    /\ emitted = [sid \in Sids |-> 0]
    /\ nlost = 0
    /\ recvers = [sid \in Sids |->
                    IF sid \in IdsLocalSids /\ SidDir(sid) = "Bi"
                    THEN NewRecver(local_bi_stream_rcvbuf_size) ELSE NoRecver]
    /\ open_tasks = [t \in Tasks |-> NoTask]
    /\ producers = [t \in Tasks |-> NoProducer]
    /\ RawDatagramWriter_new(None)
    /\ LocksFree
    /\ ArcRouter_new

\* no receiver but the one of sid has received anything
FollowsOneRecver(sid) ==
    \A s \in Sids \ {sid} : recvers[s].st \in {"None", "Recv", "Err"} /\ recvers[s].rcvd = {}

IdsRecvData ==
    \E sid \in IdsFrameSids, f \in IdsDataFrames :
        FollowsOneRecver(sid) /\ recv_data(sid, f.offset, f.len, f.fin)
IdsRecvResetStream ==
    \E sid \in IdsFrameSids, n \in IdsFinalSizes :
        FollowsOneRecver(sid) /\ recv_stream_control_ResetStream(sid, n)
IdsRecvStreamDataBlocked ==
    \E sid \in IdsFrameSids : recv_stream_control_StreamDataBlocked(sid)
IdsRecvStopSending ==
    \E sid \in IdsFrameSids, code \in AppErrCodes : recv_stream_control_StopSending(sid, code)
IdsRecvMaxStreamData ==
    \E sid \in IdsFrameSids : recv_stream_control_MaxStreamData(sid, 0)
IdsOnConnError == on_conn_error(1)

NextIds ==
    \/ IdsRecvData
    \/ IdsRecvResetStream
    \/ IdsRecvStreamDataBlocked
    \/ IdsRecvStopSending
    \/ IdsRecvMaxStreamData
    \/ IdsOnConnError

SpecIds == InitIds /\ [][NextIds]_vars

(***************************************************************************)
(* SpecOpen: application tasks in open_bi / open_uni against the peer's    *)
(* MAX_STREAMS frames.  A task polls its request; a poll that finds no id  *)
(* within the limit suspends the task until permit_max_sid wakes it; the   *)
(* task may drop its request instead.  SpecOpenFair is the part where no   *)
(* request is dropped and the connection stays up, with the executor       *)
(* polling every task that was woken.                                      *)
(***************************************************************************)
OpenMaxStreamsVals == 1 .. MaxStreams

\* the task after its poll returned res
polled(t, dir, r) ==
    [open_tasks EXCEPT ![t] =
        CASE r.res = "Ok" -> [pc |-> "done", dir |-> dir, sid |-> r.sid]
          [] r.res = "Pending" -> [pc |-> "pending", dir |-> dir, sid |-> -1]
          [] OTHER -> [pc |-> "failed", dir |-> dir, sid |-> -1]]

\* a task starts a request, or polls it again after it was woken
Pollable(t, dir) ==
    \/ open_tasks[t].pc = "idle"
    \/ open_tasks[t].pc = "woken" /\ open_tasks[t].dir = dir

TaskPoll(t, dir) ==
    /\ Pollable(t, dir)
    /\ IF dir = "Bi" THEN poll_open_bi_stream(0) ELSE poll_open_uni_stream(0)
    /\ open_tasks' = polled(t, dir, ret')
    /\ UNCHANGED beside_streams

TaskPollWoken(t) ==
    open_tasks[t].pc = "woken" /\ TaskPoll(t, open_tasks[t].dir)

\* the task drops the future of its request
TaskDrop(t) ==
    /\ ~panicked
    /\ open_tasks[t].pc \in {"pending", "woken"}
    /\ open_tasks' = [open_tasks EXCEPT ![t] = NoTask]
    /\ UNCHANGED beside_streams
    /\ ret' = [op |-> "drop"]
    /\ UNCHANGED <<outgoings, cur_sending_stream, output_err, senders, input,
                   input_err, listener, listener_err, stream_ids, ctrl_frames,
                   inflight, watcher, panicked, emitted, nlost, recvers>>

OpenTaskPoll == \E t \in Tasks, d \in Dirs : TaskPoll(t, d)
OpenTaskDrop == \E t \in Tasks : TaskDrop(t)
OpenRecvMaxStreams ==
    \E d \in Dirs, v \in OpenMaxStreamsVals : recv_stream_control_MaxStreams(d, v)
OpenOnConnError == on_conn_error(1)

NextOpen ==
    \/ OpenTaskPoll
    \/ OpenTaskDrop
    \/ OpenRecvMaxStreams
    \/ OpenOnConnError

SpecOpen == Init /\ [][NextOpen]_vars

NextOpenFair ==
    \/ OpenTaskPoll
    \/ OpenRecvMaxStreams

SpecOpenFair ==
    Init /\ [][NextOpenFair]_vars /\ \A t \in Tasks : WF_vars(TaskPollWoken(t))

(***************************************************************************)
(* SpecErr: the handlers of the stream manager around a connection error.  *)
(* The run starts as SpecIds does, with the local streams 0 and 2 open;    *)
(* the peer grants stream 0 a window, the application writes to it, and    *)
(* every handler that takes a frame, an acknowledgement, a loss or a       *)
(* request for a new stream is called before and after on_conn_error; the  *)
(* error is reported more than once, with different values.                *)
(***************************************************************************)
ErrFrameSids == {MkSid(LocalRole, "Bi", 0), MkSid(PeerRole, "Uni", 0)}
ErrDataFrames == {[offset |-> 0, len |-> 1, fin |-> FALSE]}

ErrRecvData ==
    \E sid \in ErrFrameSids, f \in ErrDataFrames : recv_data(sid, f.offset, f.len, f.fin)
ErrRecvResetStream ==
    \E sid \in ErrFrameSids : recv_stream_control_ResetStream(sid, 1)
ErrRecvStreamDataBlocked ==
    \E sid \in ErrFrameSids : recv_stream_control_StreamDataBlocked(sid)
ErrRecvStopSending ==
    \E sid \in ErrFrameSids, code \in AppErrCodes : recv_stream_control_StopSending(sid, code)
ErrRecvMaxStreamData ==
    \E sid \in ErrFrameSids, m \in WndSizes : recv_stream_control_MaxStreamData(sid, m)
ErrOpenBi == poll_open_bi_stream(0) /\ UNCHANGED <<open_tasks, beside_streams>>
ErrOpenUni == poll_open_uni_stream(0) /\ UNCHANGED <<open_tasks, beside_streams>>

NextErr ==
    \/ AppWrite
    \/ TryReadData
    \/ OnDataAcked
    \/ MayLossData
    \/ OnResetAcked
    \/ ErrRecvData
    \/ ErrRecvResetStream
    \/ ErrRecvStreamDataBlocked
    \/ ErrRecvStopSending
    \/ ErrRecvMaxStreamData
    \/ RecvMaxStreams
    \/ ErrOpenBi
    \/ ErrOpenUni
    \/ OnConnError

SpecErr == InitIds /\ [][NextErr]_vars

(***************************************************************************)
(* The handlers of the datagram channel: DatagramOutgoing for the          *)
(* transport, DatagramWriter for the application.                          *)
(***************************************************************************)
\* the values of max_datagram_frame_size the peer announces
RemoteMaxSizes == {2, 65}
\* the lengths of the payloads the application sends
PayloadLens == {1, 2, 64}
\* the lengths of the packet buffers, and what the caller left in them
DatagramBufLens == {1, 2, 3, 66}
PriorBytes == {"00", "XX"}

\* what the datagram channel's handlers leave alone
DatagramUnchanged ==
    UNCHANGED <<outgoings, cur_sending_stream, output_err, senders, input, input_err,
                listener, listener_err, stream_ids, ctrl_frames, inflight, watcher,
                emitted, nlost, recvers, open_tasks, producers, beside_channels>>

\* a task may start a call, or poll again the call it was woken in
MayPoll(t, op) ==
    \/ datagram_tasks[t].pc = "idle"
    \/ datagram_tasks[t].pc = "woken" /\ datagram_tasks[t].op = op

\* a new_writer that hands out the writer without waiting for the size
new_writer_at_once(t) ==
    /\ ~panicked
    /\ MayPoll(t, "new_writer")
    /\ IF datagram_err # 0
       THEN /\ ret' = [op |-> "new_writer", task |-> t, res |-> "Err", err |-> datagram_err]
            /\ datagram_tasks' = [datagram_tasks EXCEPT ![t].pc = "idle", ![t].op = ""]
       ELSE /\ ret' = [op |-> "new_writer", task |-> t, res |-> "Ok"]
            /\ datagram_tasks' = [datagram_tasks EXCEPT
                                    ![t] = [pc |-> "idle", op |-> "", writer |-> TRUE]]
    /\ UNCHANGED <<datagram_err, remote_max_size, queue, panicked>>
    /\ DatagramUnchanged

\* one poll of DatagramOutgoing::new_writer by task t
new_writer(t) ==
    /\ ~panicked
    /\ MayPoll(t, "new_writer")
    /\ IF datagram_err # 0
       THEN /\ ret' = [op |-> "new_writer", task |-> t, res |-> "Err", err |-> datagram_err]
            /\ datagram_tasks' = [datagram_tasks EXCEPT ![t].pc = "idle", ![t].op = ""]
       ELSE IF poll_get(remote_max_size)
       THEN /\ ret' = [op |-> "new_writer", task |-> t, res |-> "Ok"]
            /\ datagram_tasks' = [datagram_tasks EXCEPT
                                    ![t] = [pc |-> "idle", op |-> "", writer |-> TRUE]]
       ELSE /\ ret' = [op |-> "new_writer", task |-> t, res |-> "Pending"]
            /\ datagram_tasks' = [datagram_tasks EXCEPT
                                    ![t].pc = "pending", ![t].op = "new_writer"]
    /\ UNCHANGED <<datagram_err, remote_max_size, queue, panicked>>
    /\ DatagramUnchanged

\* one poll of DatagramWriter::max_datagram_frame_size by a task that holds a writer
max_datagram_frame_size(t) ==
    /\ ~panicked
    /\ datagram_tasks[t].writer
    /\ MayPoll(t, "max_datagram_frame_size")
    /\ IF datagram_err # 0
       THEN /\ ret' = [op |-> "max_datagram_frame_size", task |-> t, res |-> "Err",
                       err |-> datagram_err]
            /\ datagram_tasks' = [datagram_tasks EXCEPT ![t].pc = "idle", ![t].op = ""]
       ELSE IF poll_get(remote_max_size)
       THEN /\ ret' = [op |-> "max_datagram_frame_size", task |-> t, res |-> "Ok",
                       size |-> Unwrap(remote_max_size)]
            /\ datagram_tasks' = [datagram_tasks EXCEPT ![t].pc = "idle", ![t].op = ""]
       ELSE /\ ret' = [op |-> "max_datagram_frame_size", task |-> t, res |-> "Pending"]
            /\ datagram_tasks' = [datagram_tasks EXCEPT
                                    ![t].pc = "pending", ![t].op = "max_datagram_frame_size"]
    /\ UNCHANGED <<datagram_err, remote_max_size, queue, panicked>>
    /\ DatagramUnchanged

\* a size test that forgets the type byte
exceeds_limit_payload_only(len, size) == len > size

\* the size test of send_bytes: the smallest frame is one byte and the payload
exceeds_limit(len, size) == 1 + len > size

\* a send_bytes that puts the payload at the front of the queue
send_bytes_push_front(t, len) ==
    /\ ~panicked
    /\ datagram_tasks[t].writer
    /\ datagram_tasks[t].pc = "idle"
    /\ IF datagram_err # 0
       THEN /\ ret' = [op |-> "send_bytes", len |-> len, res |-> "Err", err |-> datagram_err]
            /\ UNCHANGED <<queue, panicked>>
       ELSE IF ~IsSome(remote_max_size)
       THEN /\ panicked' = TRUE
            /\ ret' = [op |-> "send_bytes", len |-> len, res |-> "panic"]
            /\ UNCHANGED queue
       ELSE IF exceeds_limit(len, Unwrap(remote_max_size))
       THEN /\ ret' = [op |-> "send_bytes", len |-> len, res |-> "InvalidInput"]
            /\ UNCHANGED <<queue, panicked>>
       ELSE /\ queue' = <<len>> \o queue
            /\ ret' = [op |-> "send_bytes", len |-> len, res |-> "Ok"]
            /\ UNCHANGED panicked
    /\ UNCHANGED <<datagram_err, remote_max_size, datagram_tasks>>
    /\ DatagramUnchanged

\* DatagramWriter::send_bytes by a task that holds a writer
send_bytes(t, len) ==
    /\ ~panicked
    /\ datagram_tasks[t].writer
    /\ datagram_tasks[t].pc = "idle"
    /\ IF datagram_err # 0
       THEN /\ ret' = [op |-> "send_bytes", len |-> len, res |-> "Err", err |-> datagram_err]
            /\ UNCHANGED <<queue, panicked>>
       ELSE IF ~IsSome(remote_max_size)
       THEN \* remote_max_size.as_ref().unwrap()
            /\ panicked' = TRUE
            /\ ret' = [op |-> "send_bytes", len |-> len, res |-> "panic"]
            /\ UNCHANGED queue
       ELSE IF exceeds_limit(len, Unwrap(remote_max_size))
       THEN /\ ret' = [op |-> "send_bytes", len |-> len, res |-> "InvalidInput"]
            /\ UNCHANGED <<queue, panicked>>
       ELSE /\ queue' = Append(queue, len)
            /\ ret' = [op |-> "send_bytes", len |-> len, res |-> "Ok"]
            /\ UNCHANGED panicked
    /\ UNCHANGED <<datagram_err, remote_max_size, datagram_tasks>>
    /\ DatagramUnchanged

\* DatagramWriter::send copies the bytes and calls send_bytes
send(t, len) == send_bytes(t, len)

\* DatagramOutgoing::try_read_datagram with a buffer of len bytes, each prior
try_read_datagram(len, prior) ==
    /\ ~panicked
    /\ LET buf == [i \in 1 .. len |-> prior]
           r == DatagramOutgoing_try_read_datagram(datagram_err, queue, buf)
       IN  /\ queue' = r.queue
           /\ ret' = [op |-> "try_read_datagram", before |-> buf, buf |-> r.buf,
                      res |-> r.res]
    /\ UNCHANGED <<datagram_err, remote_max_size, datagram_tasks, panicked>>
    /\ DatagramUnchanged

\* an update that stores whatever the peer announces
update_reduces_never(previous, size) == FALSE

\* the update is a reduction
update_reduces(previous, size) == IsSome(previous) /\ Unwrap(previous) > size

\* DatagramOutgoing::update_remote_max_datagram_frame_size
update_remote_max_datagram_frame_size(size) ==
    /\ ~panicked
    /\ IF datagram_err = 0
       THEN IF update_reduces(remote_max_size, size)
            THEN /\ ret' = [op |-> "update_remote_max", size |-> size,
                            res |-> "ProtocolViolation"]
                 /\ UNCHANGED <<remote_max_size, datagram_tasks>>
            ELSE \* remote_max_size.write(size)
                 /\ remote_max_size' = Some(size)
                 /\ datagram_tasks' = wake_datagram_tasks
                 /\ ret' = [op |-> "update_remote_max", size |-> size, res |-> "Ok"]
       ELSE /\ ret' = [op |-> "update_remote_max", size |-> size, res |-> "Ok"]
            /\ UNCHANGED <<remote_max_size, datagram_tasks>>
    /\ UNCHANGED <<datagram_err, queue, panicked>>
    /\ DatagramUnchanged

\* an on_conn_error that stores the latest error
DatagramOutgoing_on_conn_error_replace(e) ==
    /\ ~panicked
    /\ datagram_err' = e
    /\ remote_max_size' = None
    /\ queue' = <<>>
    /\ UNCHANGED datagram_tasks
    /\ ret' = [op |-> "datagram_on_conn_error", e |-> e]
    /\ UNCHANGED panicked
    /\ DatagramUnchanged

\* DatagramOutgoing::on_conn_error: the writer, with its queue and its
\* remote_max_size, is replaced by the error; the wakers kept in
\* remote_max_size are not called
DatagramOutgoing_on_conn_error(e) ==
    /\ ~panicked
    /\ IF datagram_err = 0
       THEN /\ datagram_err' = e
            /\ remote_max_size' = None
            /\ queue' = <<>>
       ELSE UNCHANGED <<datagram_err, remote_max_size, queue>>
    /\ UNCHANGED datagram_tasks
    /\ ret' = [op |-> "datagram_on_conn_error", e |-> e]
    /\ UNCHANGED panicked
    /\ DatagramUnchanged

(***************************************************************************)
(* SpecDgram: the datagram channel from RawDatagramWriter::new(None).      *)
(***************************************************************************)
DgramNewWriter == \E t \in Tasks : new_writer(t)
DgramMaxSize == \E t \in Tasks : max_datagram_frame_size(t)
DgramSendBytes ==
    \E t \in Tasks, len \in PayloadLens : Len(queue) < MaxQueue /\ send_bytes(t, len)
DgramSend ==
    \E t \in Tasks, len \in PayloadLens : Len(queue) < MaxQueue /\ send(t, len)
DgramTryRead ==
    \E len \in DatagramBufLens, prior \in PriorBytes : try_read_datagram(len, prior)
DgramUpdate == \E size \in RemoteMaxSizes : update_remote_max_datagram_frame_size(size)
DgramOnConnError == \E e \in ConnErrors : DatagramOutgoing_on_conn_error(e)

NextDgram ==
    \/ DgramNewWriter
    \/ DgramMaxSize
    \/ DgramSendBytes
    \/ DgramSend
    \/ DgramTryRead
    \/ DgramUpdate
    \/ DgramOnConnError

SpecDgram == Init /\ [][NextDgram]_vars

(***************************************************************************)
(* SpecWake: the tasks that are suspended when the connection fails.  A    *)
(* producer suspends in a write while the peer's window is used up, or in  *)
(* a shutdown until the end of the stream is acknowledged; a task suspends *)
(* in new_writer until the peer's max_datagram_frame_size is known.  The   *)
(* executor polls every task that was woken.                               *)
(***************************************************************************)
\* Writer: the call of the producer cannot complete now
writer_pending(s) ==
    \/ s.st \in {"Ready", "Sending"} /\ s.len = s.wnd
    \/ s.st = "DataSent" /\ ~s.fin_acked

StreamsUnchanged ==
    UNCHANGED <<outgoings, cur_sending_stream, output_err, senders, input, input_err,
                listener, listener_err, stream_ids, ctrl_frames, inflight, watcher,
                panicked, emitted, nlost, recvers, open_tasks, beside_channels>>

\* Writer::poll_write / poll_shutdown: the producer registers its waker
producer_suspend(t, sid) ==
    /\ ~panicked
    /\ producers[t].pc = "idle"
    /\ \A u \in Tasks : producers[u].sid # sid
    /\ writer_pending(senders[sid])
    /\ producers' = [producers EXCEPT ![t] = [pc |-> "pending", sid |-> sid]]
    /\ ret' = [op |-> "producer", task |-> t, res |-> "Pending"]
    /\ StreamsUnchanged
    /\ UNCHANGED datagram_vars

\* the producer, woken, polls its call again
producer_poll(t) ==
    /\ ~panicked
    /\ producers[t].pc = "woken"
    /\ IF senders[producers[t].sid].st = "Err"
       THEN /\ producers' = [producers EXCEPT ![t].pc = "failed"]
            /\ ret' = [op |-> "producer", task |-> t, res |-> "BrokenPipe"]
       ELSE /\ producers' = [producers EXCEPT ![t].pc = "pending"]
            /\ ret' = [op |-> "producer", task |-> t, res |-> "Pending"]
    /\ StreamsUnchanged
    /\ UNCHANGED datagram_vars

\* a task polls new_writer again after it was woken
new_writer_woken(t) == datagram_tasks[t].pc = "woken" /\ new_writer(t)

WakeProducerSuspend == \E t \in Tasks, sid \in IdsLocalSids : producer_suspend(t, sid)
WakeProducerPoll == \E t \in Tasks : producer_poll(t)
WakeShutdown ==
    \E sid \in IdsLocalSids : (\A t \in Tasks : producers[t].sid # sid) /\ app_shutdown(sid)
WakeTryReadData == try_read_data(2, 0)

NextWake ==
    \/ WakeProducerSuspend
    \/ WakeProducerPoll
    \/ WakeShutdown
    \/ WakeTryReadData
    \/ OnConnError
    \/ DgramNewWriter
    \/ DgramUpdate
    \/ DgramOnConnError

SpecWake ==
    /\ InitIds
    /\ [][NextWake]_vars
    /\ \A t \in Tasks : WF_vars(producer_poll(t)) /\ WF_vars(new_writer_woken(t))

(***************************************************************************)
(* SpecPad: the bytes try_read reports as written.  The three streams of   *)
(* SpecSched are open with a window of PadLen, the shortest data whose     *)
(* length field takes two bytes; the application writes PadLen bytes at    *)
(* once and the packetizer offers buffers that are too small for a frame,  *)
(* end with the frame, leave one byte (less than the length field) or      *)
(* leave room for the length field.                                        *)
(***************************************************************************)
PadLen == CHOOSE n \in 1 .. DEFAULT_TOKENS :
            VarIntSize(n) = 2 /\ \A m \in 1 .. n - 1 : VarIntSize(m) = 1
PadBufSizes == {2, PadLen + 2, PadLen + 3, PadLen + 5}

InitPad == OpenedStreams(SchedSids, 0, PadLen)

PadWrite == \E sid \in Sids : app_write(sid, PadLen)
PadTryReadData == \E c \in PadBufSizes : try_read_data(c, PadLen)

NextPad ==
    \/ PadWrite
    \/ AppShutdown
    \/ PadTryReadData
    \/ MayLossData
    \/ OnDataAcked

SpecPad == InitPad /\ [][NextPad]_vars

(***************************************************************************)
(* SpecLock: the order in which the operations of the stream manager take  *)
(* and drop their mutexes.  Each thread starts any operation and then does *)
(* its lock steps one at a time, so that two operations interleave between *)
(* any two steps; an acquire waits until the mutex is free (std::sync      *)
(* Mutex is not re-entrant).  "sender" and "recver" are the locks of one   *)
(* stream; an operation that returns Pending ends with a suspend step.     *)
(***************************************************************************)
Acq(l) == <<"acq", l>>
Rel(l) == <<"rel", l>>
Suspend == <<"suspend", "">>

\* a table guard that finds the connection error is dropped at the return
guard_err_locks(tables) ==
    [i \in 1 .. Len(tables) |-> Acq(tables[i])]
    \o [i \in 1 .. Len(tables) |-> Rel(tables[Len(tables) + 1 - i])]

\* try_read_data, on_data_acked, may_loss_data, on_reset_acked and the
\* lookups of the StopSending and MaxStreamData arms: the sender's lock is
\* taken inside Outgoing while the guard of the OutputTable lives
output_stream_locks == <<Acq("output"), Acq("sender"), Rel("sender"), Rel("output")>>

\* recv_data and the ResetStream and StreamDataBlocked arms: the receiver's
\* lock is taken inside Incoming while the guard of the InputTable lives
input_stream_locks == <<Acq("input"), Acq("recver"), Rel("recver"), Rel("input")>>

try_accept_bi_sid_locks ==
    <<Acq("output"), Acq("input"), Acq("listener"), Acq("stream_ids"), Rel("stream_ids"),
      Rel("listener"), Rel("input"), Rel("output")>>

try_accept_uni_sid_locks ==
    <<Acq("input"), Acq("listener"), Acq("stream_ids"), Rel("stream_ids"),
      Rel("listener"), Rel("input")>>

\* an on_conn_error that takes the InputTable before the OutputTable
on_conn_error_locks_input_first ==
    <<Acq("input"), Acq("output"), Acq("listener"),
      Acq("sender"), Rel("sender"), Acq("recver"), Rel("recver"),
      Rel("listener"), Rel("output"), Rel("input")>>

\* on_conn_error: the three guards, then every Outgoing and every Incoming
on_conn_error_locks ==
    <<Acq("output"), Acq("input"), Acq("listener"),
      Acq("sender"), Rel("sender"), Acq("recver"), Rel("recver"),
      Rel("listener"), Rel("input"), Rel("output")>>

\* poll_open_bi_stream; ready!() returns Pending and drops the guards
poll_open_bi_stream_locks(pending) ==
    <<Acq("output"), Acq("input"), Acq("stream_ids"), Rel("stream_ids"),
      Rel("input"), Rel("output")>> \o (IF pending THEN <<Suspend>> ELSE <<>>)

poll_open_uni_stream_locks(pending) ==
    <<Acq("output"), Acq("stream_ids"), Rel("stream_ids"), Rel("output")>>
    \o (IF pending THEN <<Suspend>> ELSE <<>>)

\* Writer, Reader and the cancel watcher hold the lock of their stream only
\* while they are polled
handle_locks(l, pending) ==
    <<Acq(l), Rel(l)>> \o (IF pending THEN <<Suspend>> ELSE <<>>)

\* the lock steps of the operations of RawDataStreams and of the handles
LockPrograms ==
    {output_stream_locks,
     input_stream_locks,
     try_accept_bi_sid_locks \o input_stream_locks,
     try_accept_uni_sid_locks \o input_stream_locks,
     try_accept_bi_sid_locks \o output_stream_locks,
     <<Acq("stream_ids"), Rel("stream_ids")>>,
     on_conn_error_locks,
     guard_err_locks(<<"output">>),
     guard_err_locks(<<"output", "input">>),
     guard_err_locks(<<"output", "input", "listener">>),
     guard_err_locks(<<"input">>),
     guard_err_locks(<<"input", "listener">>)}
    \cup {poll_open_bi_stream_locks(p) : p \in BOOLEAN}
    \cup {poll_open_uni_stream_locks(p) : p \in BOOLEAN}
    \cup {handle_locks(l, p) : l \in {"sender", "recver"}, p \in BOOLEAN}

Held(t) == {l \in Locks : lock_owner[l] = Some(t)}

LockUnchanged ==
    UNCHANGED <<outgoings, cur_sending_stream, output_err, senders, input, input_err,
                listener, listener_err, stream_ids, ctrl_frames, inflight, watcher,
                panicked, ret, emitted, nlost, recvers, open_tasks, producers,
                datagram_vars, router_vars>>

\* a thread enters an operation
LockBegin(t) ==
    /\ lock_pc[t] = <<>>
    /\ \E prog \in LockPrograms : lock_pc' = [lock_pc EXCEPT ![t] = prog]
    /\ UNCHANGED lock_owner
    /\ LockUnchanged

\* Mutex::lock: the thread waits until the mutex is free
LockAcquire(t) ==
    /\ lock_pc[t] # <<>>
    /\ Head(lock_pc[t])[1] = "acq"
    /\ lock_owner[Head(lock_pc[t])[2]] = None
    /\ lock_owner' = [lock_owner EXCEPT ![Head(lock_pc[t])[2]] = Some(t)]
    /\ lock_pc' = [lock_pc EXCEPT ![t] = Tail(@)]
    /\ LockUnchanged

\* the guard is dropped
LockRelease(t) ==
    /\ lock_pc[t] # <<>>
    /\ Head(lock_pc[t])[1] = "rel"
    /\ lock_owner' = [lock_owner EXCEPT ![Head(lock_pc[t])[2]] = None]
    /\ lock_pc' = [lock_pc EXCEPT ![t] = Tail(@)]
    /\ LockUnchanged

\* the operation returns Poll::Pending
LockSuspend(t) ==
    /\ lock_pc[t] # <<>>
    /\ Head(lock_pc[t])[1] = "suspend"
    /\ lock_pc' = [lock_pc EXCEPT ![t] = Tail(@)]
    /\ UNCHANGED lock_owner
    /\ LockUnchanged

NextLock ==
    \E t \in Tasks :
        \/ LockBegin(t)
        \/ LockAcquire(t)
        \/ LockRelease(t)
        \/ LockSuspend(t)

SpecLock == Init /\ [][NextLock]_vars

(***************************************************************************)
(* SpecDir: which table a stream enters.  From RawDataStreams::new the     *)
(* application opens streams of both directions, the peer raises the       *)
(* limits and sends frames that name the first stream of every quadrant,   *)
(* the scheduler visits the streams and resets are acknowledged.           *)
(***************************************************************************)
DirFrameSids == {MkSid(r, d, 0) : r \in {LocalRole, PeerRole}, d \in Dirs}

DirRecvData == \E sid \in DirFrameSids : recv_data(sid, 0, 1, FALSE)
DirRecvStopSending ==
    \E sid \in DirFrameSids, code \in AppErrCodes : recv_stream_control_StopSending(sid, code)
DirTryReadData == try_read_data(2, 0)

NextDir ==
    \/ RecvMaxStreams
    \/ ErrOpenBi
    \/ ErrOpenUni
    \/ DirRecvData
    \/ DirRecvStopSending
    \/ DirTryReadData
    \/ OnResetAcked
    \/ OnConnError

SpecDir == Init /\ [][NextDir]_vars

(***************************************************************************)
(* SpecRouter: the connection-id router.  Connections register their       *)
(* source connection id, issue further ids in NEW_CONNECTION_ID frames     *)
(* (send_frame registers an id when the issuing queue pulls its frame and  *)
(* the queue stores the frame afterwards, so other threads run between the *)
(* two), retire ids, and packets of every type arrive for every id.        *)
(***************************************************************************)
MaxPackets == 1
MaxIssued == 2
PacketTypes == {"Initial", "ZeroRtt", "Handshake", "Short"}

RouterUnchanged ==
    UNCHANGED <<outgoings, cur_sending_stream, output_err, senders, input, input_err,
                listener, listener_err, stream_ids, ctrl_frames, inflight, watcher,
                panicked, emitted, nlost, recvers, open_tasks, producers,
                datagram_vars, lock_vars>>

\* UniqueCid::is_unique_cid
is_unique_cid(cid) == router[cid] = None

\* a match that sends the short-header packets to the Initial entry
packet_index_short_first(type) ==
    CASE type = "Short" -> 0
      [] type = "ZeroRtt" -> 1
      [] type = "Handshake" -> 2
      [] type = "Initial" -> 3

\* the entry of a packet type
packet_index(type) ==
    CASE type = "Initial" -> 0
      [] type = "ZeroRtt" -> 1
      [] type = "Handshake" -> 2
      [] type = "Short" -> 3

\* the packets forwarded so far
Forwarded ==
    LET n(c) == Len(entries[c][0]) + Len(entries[c][1]) + Len(entries[c][2])
              + Len(entries[c][3])
    IN  n(1) + n(2)

recv_packet_via_pathway(dcid, type) ==
    /\ LET packet == [dcid |-> dcid, type |-> type]
       IN  IF IsSome(router[dcid])
           THEN LET c == Unwrap(router[dcid])
                    index == packet_index(type)
                IN  /\ entries' = [entries EXCEPT ![c][index] = Append(@, packet)]
                    /\ ret' = [op |-> "recv_packet", packet |-> packet, res |-> None]
           ELSE /\ ret' = [op |-> "recv_packet", packet |-> packet, res |-> Some(packet)]
                /\ UNCHANGED entries
    /\ UNCHANGED <<router, issued_cids, registries>>
    /\ RouterUnchanged

\* ArcRouter::registry: the connection's source id maps to its entries
registry(c, scid) ==
    /\ router' = [router EXCEPT ![scid] = Some(c)]
    /\ registries' = [registries EXCEPT ![c].made = TRUE]
    /\ ret' = [op |-> "registry", conn |-> c, cid |-> scid]
    /\ UNCHANGED <<entries, issued_cids>>
    /\ RouterUnchanged

\* RouterRegistry::send_frame, the inspect closure: the issuing queue pulls
\* the next frame of the iterator and the id of the frame is registered
send_frame_inspect(c, cid) ==
    /\ registries[c].made
    /\ registries[c].inspected = None
    /\ router' = [router EXCEPT ![cid] = Some(c)]
    /\ registries' = [registries EXCEPT ![c].inspected = Some(cid)]
    /\ ret' = [op |-> "send_frame", conn |-> c, cid |-> cid]
    /\ UNCHANGED <<entries, issued_cids>>
    /\ RouterUnchanged

\* issued_cids.send_frame stores the frame it has pulled
send_frame_push(c) ==
    /\ IsSome(registries[c].inspected)
    /\ issued_cids' = [issued_cids EXCEPT ![c] = Append(@, Unwrap(registries[c].inspected))]
    /\ registries' = [registries EXCEPT ![c].inspected = None]
    /\ ret' = [op |-> "send_frame_push", conn |-> c,
               cid |-> Unwrap(registries[c].inspected)]
    /\ UNCHANGED <<router, entries>>
    /\ RouterUnchanged

\* RevokeRouter::recv_frame: local_cids fails (err), has nothing to retire
\* (cid None) or accepts the RETIRE_CONNECTION_ID and names the retired id
RevokeRouter_recv_frame(c, outcome) ==
    /\ IF ~outcome.err /\ IsSome(outcome.cid)
       THEN router' = [router EXCEPT ![Unwrap(outcome.cid)] = None]
       ELSE UNCHANGED router
    /\ ret' = [op |-> "retire", conn |-> c, res |-> outcome]
    /\ UNCHANGED <<entries, issued_cids, registries>>
    /\ RouterUnchanged

\* the ids a connection can retire: its own, once their frame was issued
LocalCids(c) == {cid \in Cids : router[cid] = Some(c) /\ registries[c].inspected # Some(cid)}

RouterRegistryNew ==
    \E c \in Conns, scid \in Cids :
        ~registries[c].made /\ is_unique_cid(scid) /\ registry(c, scid)
\* the NEW_CONNECTION_ID frames pulled so far
Issued ==
    LET n(c) == Len(issued_cids[c]) + (IF IsSome(registries[c].inspected) THEN 1 ELSE 0)
    IN  n(1) + n(2)

RouterSendFrameInspect ==
    \E c \in Conns, cid \in Cids :
        Issued < MaxIssued /\ is_unique_cid(cid) /\ send_frame_inspect(c, cid)
RouterSendFramePush == \E c \in Conns : send_frame_push(c)
RouterRecvPacket ==
    \E dcid \in Cids, type \in PacketTypes :
        Forwarded < MaxPackets /\ recv_packet_via_pathway(dcid, type)
RouterRetire ==
    \E c \in Conns :
        \E outcome \in {[err |-> TRUE, cid |-> None], [err |-> FALSE, cid |-> None]}
                        \cup {[err |-> FALSE, cid |-> Some(cid)] : cid \in LocalCids(c)} :
            registries[c].made /\ RevokeRouter_recv_frame(c, outcome)

NextRouter ==
    \/ RouterRegistryNew
    \/ RouterSendFrameInspect
    \/ RouterSendFramePush
    \/ RouterRecvPacket
    \/ RouterRetire

SpecRouter == Init /\ [][NextRouter]_vars

(***************************************************************************)
(* Properties.                                                             *)
(***************************************************************************)

\* C1: when a STOP_SENDING reaches a send stream whose stop() returns true,
\* exactly one RESET_STREAM is enqueued for that stream, with
\* app_error_code 0 and final_size equal to the bytes the application had
\* written at the moment of the stop.
C1_StopSendingResetCarriesWrittenOffset ==
    [][(ret'.op = "StopSending" /\ ret'.err = "" /\ ret'.stopped)
        => /\ Len(ctrl_frames') = Len(ctrl_frames) + 1
           /\ ctrl_frames'[Len(ctrl_frames')] =
                ResetStreamFrame(ret'.sid, 0, senders[ret'.sid].len)]_vars

\* a sender with nothing to emit, whatever the buffer and the flow limit
Idle(s) == s.st \in {"Ready", "Sending", "DataSent"} /\ s.lost = {} /\ s.sent = s.len
\* a sender that emits a frame into a buffer of this capacity under this limit
Sendable(s, sid, capacity, flow_limit) ==
    IsSome(Outgoing_try_read(s, sid, capacity, DEFAULT_TOKENS, flow_limit).res)

\* C2: the scheduler does not starve a ready stream behind an idle one: when
\* try_read_data visits a stream that has nothing to emit while another
\* stream of the table has data that the same buffer and flow limit admit,
\* the cursor moves on, so the next call serves a different stream.
C2_IdleStreamYieldsCursor ==
    [][(/\ ret'.op = "try_read_data"
        /\ ret'.res = None
        /\ ret'.sid \in outgoings'
        /\ Idle(senders'[ret'.sid])
        /\ \E o \in outgoings' \ {ret'.sid} :
               Sendable(senders'[o], o, ret'.capacity, ret'.flow_limit))
        => Unwrap(select_stream')[1] # ret'.sid]_vars

\* the smallest StreamId of the table above c, or the smallest overall
NextSid(c) ==
    IF \E k \in outgoings : k > c
    THEN SetMin({k \in outgoings : k > c})
    ELSE SetMin(outgoings)

\* C3: when the cursor's stream has used up its tokens, the next stream
\* try_read_data serves is the smallest StreamId of the table above the
\* cursor's, or the smallest overall if there is none, with a fresh quantum
\* of DEFAULT_TOKENS, whether or not the cursor's stream is still in the
\* table.
C3_ExhaustedCursorMovesToNext ==
    [][(/\ ret'.op = "try_read_data"
        /\ output_err = 0
        /\ outgoings # {}
        /\ IsSome(cur_sending_stream)
        /\ Unwrap(cur_sending_stream)[2] = 0)
        => /\ ret'.sid = NextSid(Unwrap(cur_sending_stream)[1])
           /\ ret'.tokens = DEFAULT_TOKENS]_vars

\* C4: with streams that always hold a quantum of ready data, unlimited
\* flow and no stream added or removed, the data bytes emitted for any two
\* streams differ by at most DEFAULT_TOKENS, and the cursor's remaining
\* tokens never go below zero (no visit emits more than a quantum).
C4_Fairness ==
    /\ \A a \in outgoings, b \in outgoings : emitted[a] - emitted[b] <= DEFAULT_TOKENS
    /\ IsSome(cur_sending_stream)
         => Unwrap(cur_sending_stream)[2] \in 0 .. DEFAULT_TOKENS

\* C4 witness: the cursor is in its second round, one stream a full quantum
\* ahead of another, part of the quantum spent on a retransmission
C4_Witness ==
    /\ nlost > 0
    /\ \E a \in outgoings, b \in outgoings :
          /\ emitted[a] = 2 * DEFAULT_TOKENS
          /\ emitted[b] = DEFAULT_TOKENS
          /\ senders[a].sent < emitted[a]

\* the bytes handed out at least once, over the streams in S
RECURSIVE TotalFlushed(_, _)
TotalFlushed(snd, S) ==
    IF S = {} THEN 0
    ELSE LET x == CHOOSE y \in S : TRUE
         IN  snd[x].sent + TotalFlushed(snd, S \ {x})

\* C5: the bytes try_read_data reports as charged to the connection's flow
\* limit are the frame's data length when the frame carries fresh data and
\* 0 when it is a retransmission: they equal the advance of the stream's
\* flushed offset in that call.
C5_ChargedEqualsFresh ==
    [][(ret'.op = "try_read_data" /\ IsSome(ret'.res))
        => LET r == Unwrap(ret'.res)
               s == senders[ret'.sid]
           IN  /\ r.charged = senders'[ret'.sid].sent - s.sent
               /\ r.charged = TotalFlushed(senders', Sids) - TotalFlushed(senders, Sids)
               /\ r.charged = IF r.frame.offset >= s.sent THEN r.frame.len ELSE 0]_vars

\* C5 witness: a retransmission was emitted and nothing was charged
C5_Witness ==
    /\ ret.op = "try_read_data"
    /\ IsSome(ret.res)
    /\ Unwrap(ret.res).frame.len > 0
    /\ Unwrap(ret.res).charged = 0

\* C6: the fresh stream bytes a try_read_data(buf, flow_limit) call emits
\* are at most flow_limit; with flow_limit 0 only retransmissions go out.
C6_FlowSafety ==
    [][ret'.op = "try_read_data"
        => /\ TotalFlushed(senders', Sids) - TotalFlushed(senders, Sids)
                <= ret'.flow_limit
           /\ IsSome(ret'.res) => Unwrap(ret'.res).charged <= ret'.flow_limit]_vars

\* C6 witness: under flow_limit 0 a retransmission was emitted while fresh
\* bytes were waiting
C6_Witness ==
    /\ ret.op = "try_read_data"
    /\ ret.flow_limit = 0
    /\ IsSome(ret.res)
    /\ Unwrap(ret.res).frame.len > 0
    /\ senders[ret.sid].sent < senders[ret.sid].len

\* the edges of the send-side state machine
SendEdges ==
    {<<"Ready", "Sending">>, <<"Ready", "DataSent">>, <<"Sending", "DataSent">>,
     <<"Ready", "ResetSent">>, <<"Sending", "ResetSent">>, <<"DataSent", "ResetSent">>,
     <<"DataSent", "DataRcvd">>, <<"ResetSent", "ResetRcvd">>}

\* C7: apart from termination by a connection error, a send stream's state
\* changes only along the edges of the state machine; DataRcvd and
\* ResetRcvd are never left, ResetSent is left only for ResetRcvd.
C7_SendStateEdges ==
    [][\A sid \in Sids :
          LET a == senders[sid].st
              b == senders'[sid].st
          IN  \/ a = b
              \/ <<a, b>> \in SendEdges
              \/ a = "None" /\ b = "Ready"
              \/ /\ b = "Err"
                 /\ a \in {"Ready", "Sending", "DataSent"}
                 /\ output_err = 0
                 /\ output_err' # 0]_vars

\* C7 witness: the application's cancel moved a stream that had sent data
\* to ResetSent, and the acknowledged reset then to ResetRcvd
C7_Witness ==
    \E sid \in Sids :
        /\ senders[sid].st = "ResetRcvd"
        /\ watcher[sid].pc = "done"
        /\ emitted[sid] > 0
        /\ \E i \in 1 .. Len(ctrl_frames) :
              ctrl_frames[i].stream_id = sid /\ ctrl_frames[i].app_error_code # 0

\* C8: try_read moves a Ready stream to Sending only when the call produces
\* a STREAM frame, and to DataSent only when the application has closed the
\* stream and no bytes are pending; a call that produces no frame leaves
\* the stream in Ready, and a stream in DataSent has its flushed offset at
\* the final offset.
C8_ReadyLeftAsTheTableSays ==
    [][\A sid \in Sids :
          /\ (ret'.op = "try_read_data" /\ senders[sid].st = "Ready")
               => /\ senders'[sid].st = "Sending"
                       => ret'.sid = sid /\ IsSome(ret'.res)
                  /\ senders'[sid].st = "DataSent"
                       => senders[sid].shut /\ senders[sid].sent = senders[sid].len
                  /\ (ret'.sid = sid /\ ret'.res = None)
                       => senders'[sid].st = "Ready"
          /\ senders'[sid].st = "DataSent"
               => senders'[sid].sent = senders'[sid].len]_vars

\* C9: on_data_acked returns true exactly when the stream is in DataSent
\* and the acknowledged ranges, with the new range merged, cover
\* [0, final offset); that call moves the stream to DataRcvd and removes its
\* entry from the table.  An ack in Sending changes neither the state nor
\* the table.
C9_AckCompletesOnlyInDataSent ==
    [][(ret'.op = "on_data_acked" /\ inflight' # inflight)
        => LET f == CHOOSE x \in inflight \ inflight' : TRUE
               s == senders[f.id]
               present == output_err = 0 /\ f.id \in outgoings
               covered == RangeCovers(RangeInsert(s.acked, f.offset, f.offset + f.len),
                                      0, s.len)
           IN  /\ ret'.ret = (present /\ s.st = "DataSent" /\ covered)
               /\ ret'.ret => senders'[f.id].st = "DataRcvd" /\ f.id \notin outgoings'
               /\ (present /\ s.st = "Sending")
                    => senders'[f.id].st = "Sending" /\ f.id \in outgoings'
               /\ ~ret'.ret => outgoings' = outgoings]_vars

\* C9 witness: an ack completed a stream of two bytes, none of them lost
C9_Witness ==
    /\ ret.op = "on_data_acked"
    /\ ret.ret
    /\ senders[ret.sid].st = "DataRcvd"
    /\ senders[ret.sid].len = 2
    /\ emitted[ret.sid] = 2
    /\ nlost = 0

\* C10: after every manager operation the table holds no stream in DataRcvd
\* or ResetRcvd, no stream whose fin and all data are acknowledged, and not
\* the stream whose RESET_STREAM was just acknowledged.
C10_NoTerminalStreamInTable ==
    /\ \A sid \in outgoings :
          /\ senders[sid].st \notin {"DataRcvd", "ResetRcvd"}
          /\ ~(senders[sid].st = "DataSent" /\ senders[sid].fin_acked
                 /\ is_all_rcvd(senders[sid]))
    /\ ret.op = "on_reset_acked" => ret.sid \notin outgoings

\* C10 witness: the acknowledged reset took a stream in ResetSent out of the
\* table
C10_Witness ==
    /\ ret.op = "on_reset_acked"
    /\ senders[ret.sid].st = "ResetRcvd"
    /\ ret.sid \notin outgoings

\* The stream of sid as acknowledgments see it: its sender and whether the
\* table holds it; and that stream after on_data_acked of the range r.
AckView(sid) == [s |-> senders[sid], present |-> output_err = 0 /\ sid \in outgoings]

Acked(sid, v, r) ==
    IF v.present
    THEN LET o == Outgoing_on_data_acked(v.s, r.lo, r.hi, r.fin)
         IN  [s |-> o.s, present |-> sid \in on_data_acked_remove({sid}, sid, o.ret)]
    ELSE v

\* the ranges of data of sid that was emitted: the frames in flight and every
\* range below the flushed offset, the one that ends a closed stream with fin
EmittedRanges(sid) ==
    {[lo |-> f.offset, hi |-> f.offset + f.len, fin |-> f.fin] :
        f \in {g \in inflight : g.id = sid}}
    \cup {[lo |-> lo, hi |-> hi,
           fin |-> senders[sid].st = "DataSent" /\ hi = senders[sid].len] :
            lo \in 0 .. senders[sid].sent - 1, hi \in 1 .. senders[sid].sent}

\* C11: acknowledgments commute and are idempotent: for ranges r1, r2 of
\* emitted data of one stream, on_data_acked(r1) then on_data_acked(r2)
\* leaves the stream's state, its acknowledged ranges and its presence in
\* the table as the reverse order does, and on_data_acked(r1) twice leaves
\* what on_data_acked(r1) once leaves.
C11_AcksCommuteAndAreIdempotent ==
    \A sid \in Sids :
        \A r1, r2 \in {r \in EmittedRanges(sid) : r.lo < r.hi} :
            LET v == AckView(sid)
            IN  /\ Acked(sid, Acked(sid, v, r1), r2) = Acked(sid, Acked(sid, v, r2), r1)
                /\ Acked(sid, Acked(sid, v, r1), r1) = Acked(sid, v, r1)

\* C11 witness: a closed stream with two frames in flight, the second with
\* the fin, that complete the stream together and not alone
C11_Witness ==
    \E sid \in outgoings :
        /\ senders[sid].st = "DataSent"
        /\ senders[sid].acked = {}
        /\ \E f1, f2 \in inflight :
              /\ f1.id = sid /\ f2.id = sid
              /\ f1.offset = 0 /\ f2.offset = f1.len /\ f1.len > 0 /\ f2.len > 0
              /\ f2.offset + f2.len = senders[sid].len
              /\ f2.fin /\ ~f1.fin

\* the RESET_STREAM frames of sid on the control queue, and the one the
\* cancel watcher of sid is about to enqueue
ResetFrames(q, sid) ==
    {i \in 1 .. Len(q) : q[i].type = "ResetStream" /\ q[i].stream_id = sid}

ResetsOf(q, w, sid) ==
    Cardinality(ResetFrames(q, sid)) + (IF w[sid].pc = "send" THEN 1 ELSE 0)

\* C12: at most one RESET_STREAM frame per stream is ever enqueued, under
\* every interleaving of the application's cancel, STOP_SENDING frames, acks
\* and losses: on a stream in ResetSent or in a terminal state a STOP_SENDING
\* finds stop() false and the cancel watcher yields nothing, so neither
\* enqueues a frame.
C12_AtMostOneResetStream ==
    [][/\ \A sid \in Sids : ResetsOf(ctrl_frames', watcher', sid) <= 1
       /\ \A sid \in Sids :
            senders[sid].st \in {"ResetSent", "DataRcvd", "ResetRcvd"}
                => ResetsOf(ctrl_frames', watcher', sid)
                     = ResetsOf(ctrl_frames, watcher, sid)]_vars

\* C12 witness: the application's cancel reset the stream and enqueued its
\* frame, the only one of the stream; a STOP_SENDING that came later found
\* stop() false
C12_Witness ==
    /\ ret.op = "StopSending"
    /\ ret.err = ""
    /\ ~ret.stopped
    /\ ret.sid \in Sids
    /\ senders[ret.sid].st = "ResetSent"
    /\ watcher[ret.sid].pc = "done"
    /\ \E i \in ResetFrames(ctrl_frames, ret.sid) : ctrl_frames[i].app_error_code = 7

\* the handlers of the frames that name a stream, by the op they leave in ret
SenderFrameOps == {"recv_data", "ResetStream", "StreamDataBlocked"}
ReceiverFrameOps == {"StopSending", "MaxStreamData"}
StreamFrameOps == SenderFrameOps \cup ReceiverFrameOps

\* the connection has not failed: no table holds the connection error
Healthy == output_err = 0 /\ input_err = 0 /\ listener_err = 0

\* sid is a stream of the peer beyond the limit advertised for its direction
BeyondLimit(sid) ==
    SidRole(sid) = PeerRole /\ SidIndex(sid) >= stream_ids.remote_max[SidDir(sid)]

\* the step opened no stream and changed none
NoStreamOpened ==
    UNCHANGED <<input, outgoings, listener, senders, recvers, watcher, stream_ids>>

\* C13 as stated: a STREAM, RESET_STREAM, STOP_SENDING, MAX_STREAM_DATA or
\* STREAM_DATA_BLOCKED frame that names a stream of the peer beyond the
\* advertised limit of its direction returns STREAM_LIMIT_ERROR, and the
\* tables and the listener are unchanged.
C13_BeyondLimitIsStreamLimitError ==
    [][(ret'.op \in StreamFrameOps /\ BeyondLimit(ret'.sid))
        => ret'.err = "StreamLimit" /\ NoStreamOpened]_vars

\* C13 amended: on a connection that has not failed, such a frame returns
\* STREAM_LIMIT_ERROR, except a STOP_SENDING or MAX_STREAM_DATA frame for a
\* unidirectional stream of the peer, which returns STREAM_STATE_ERROR; on a
\* failed connection it returns no error.  In every case the tables, the
\* listener and the id counters are unchanged, also for the ids below the
\* named one that were not opened yet.
C13_BeyondLimitWhileHealthy ==
    [][(ret'.op \in StreamFrameOps /\ BeyondLimit(ret'.sid))
        => /\ NoStreamOpened
           /\ ret'.err =
                IF ret'.op \in ReceiverFrameOps /\ SidDir(ret'.sid) = "Uni"
                THEN "StreamState"
                ELSE IF Healthy THEN "StreamLimit" ELSE ""]_vars

\* C13 witness: a STREAM frame named the first bidirectional stream of the
\* peer past the limit while none of the peer's streams was open, and it
\* was refused
C13_Witness ==
    /\ ret.op = "recv_data"
    /\ ret.sid = MkSid(PeerRole, "Bi", MaxStreams)
    /\ ret.err = "StreamLimit"
    /\ stream_ids.remote_next["Bi"] = 0
    /\ listener = <<>>

\* the streams a frame for the remote stream sid has to open: the ids of its
\* quadrant up to sid that were not opened before
ToOpen(sid) ==
    {MkSid(PeerRole, SidDir(sid), i) :
        i \in stream_ids.remote_next[SidDir(sid)] .. SidIndex(sid)}

\* the step of a frame for sid went through try_accept_sid
Accepted(op, sid) ==
    /\ op \in StreamFrameOps
    /\ SidRole(sid) = PeerRole
    /\ ~BeyondLimit(sid)
    /\ ~(op \in ReceiverFrameOps /\ SidDir(sid) = "Uni")
    /\ Healthy

\* C14: a frame accepted for the remote stream n opens exactly the streams
\* of n's quadrant up to n that were not opened before, in increasing order
\* of their ids: a bidirectional one gets an entry in the InputTable, an
\* entry in the OutputTable and one item of the listener, a unidirectional
\* one an entry in the InputTable and one item of the listener; a frame for
\* an id that was opened before, also one whose stream has left the tables,
\* creates nothing.
C14_AcceptOpensTheSkippedIds ==
    [][Accepted(ret'.op, ret'.sid)
        => LET sid == ret'.sid
               new == ToOpen(sid)
           IN  /\ listener' = listener \o SortedSeq(new)
               /\ \A m \in new :
                    /\ recvers[m].st = "None" /\ recvers'[m].st # "None"
                    /\ m \in input' \/ (m = sid /\ ret'.op = "ResetStream")
                    /\ IF SidDir(m) = "Bi"
                       THEN /\ senders[m].st = "None" /\ senders'[m].st = "Ready"
                            /\ m \notin outgoings /\ m \in outgoings'
                       ELSE senders'[m].st = "None" /\ m \notin outgoings'
               /\ \A m \in Sids \ new :
                    /\ m \in outgoings' <=> m \in outgoings
                    /\ (senders'[m].st = "None") <=> (senders[m].st = "None")
                    /\ (recvers'[m].st = "None") <=> (recvers[m].st = "None")
                    /\ m \in input' => m \in input
                    /\ m # sid => (m \in input' <=> m \in input)]_vars

\* C14 witness: a frame for the second bidirectional stream of the peer
\* opened the first and the second, in this order; the first was reset and
\* left the InputTable, and a later STREAM frame for it created nothing
C14_Witness ==
    /\ ret.op = "recv_data"
    /\ ret.sid = MkSid(PeerRole, "Bi", 0)
    /\ ret.err = ""
    /\ listener = <<MkSid(PeerRole, "Bi", 0), MkSid(PeerRole, "Bi", 1)>>
    /\ MkSid(PeerRole, "Bi", 0) \notin input
    /\ MkSid(PeerRole, "Bi", 1) \in input
    /\ recvers[MkSid(PeerRole, "Bi", 1)].rcvd = {}
    /\ stream_ids.remote_next["Bi"] = 2

\* the direction an open operation asks for
OpenOps == {"open_bi", "open_uni"}
OpenDir(op) == IF op = "open_bi" THEN "Bi" ELSE "Uni"

\* C15: local ids are allocated one at a time and within the limit: under
\* every interleaving of open_bi and open_uni polls of concurrent tasks and
\* MAX_STREAMS frames, a poll that opens a stream gets the next id of its
\* quadrant, an id no stream had before, and the ids of a quadrant are
\* handed out in increasing order; two tasks never hold the same id, and
\* the ids allocated in a direction never exceed the peer's limit for it.
C15_LocalIdsDistinctOrderedBounded ==
    [][/\ (ret'.op \in OpenOps /\ ret'.res = "Ok")
            => LET d == OpenDir(ret'.op)
               IN  /\ ret'.sid = MkSid(LocalRole, d, stream_ids.local_next[d])
                   /\ stream_ids'.local_next[d] = stream_ids.local_next[d] + 1
                   /\ senders[ret'.sid].st = "None"
                   /\ ret'.sid \notin outgoings
                   /\ \A s \in outgoings :
                        (SidRole(s) = LocalRole /\ SidDir(s) = d)
                            => SidIndex(s) < SidIndex(ret'.sid)
       /\ \A d \in Dirs :
            /\ stream_ids'.local_next[d] >= stream_ids.local_next[d]
            /\ stream_ids'.local_next[d] <= stream_ids'.local_max[d]
       /\ \A t1, t2 \in Tasks :
            (t1 # t2 /\ open_tasks'[t1].pc = "done" /\ open_tasks'[t2].pc = "done")
                => open_tasks'[t1].sid # open_tasks'[t2].sid]_vars

\* C15 witness: two tasks asked for a bidirectional stream; each holds one,
\* the ids are the first two of the quadrant, and the limit is used up
C15_Witness ==
    /\ \A t \in Tasks : open_tasks[t].pc = "done" /\ open_tasks[t].dir = "Bi"
    /\ {open_tasks[t].sid : t \in Tasks}
         = {MkSid(LocalRole, "Bi", 0), MkSid(LocalRole, "Bi", 1)}
    /\ stream_ids.local_next["Bi"] = 2
    /\ stream_ids.local_max["Bi"] = 2

\* the ids left in a direction, and the tasks that may ask for one: those
\* waiting for the direction and those that have no request yet
Room(d) == stream_ids.local_max[d] - stream_ids.local_next[d]
Suspended(t) == open_tasks[t].pc \in {"pending", "woken"}
Competing(d) ==
    {t \in Tasks : \/ open_tasks[t].pc = "idle"
                   \/ Suspended(t) /\ open_tasks[t].dir = d}

C17_UnresolvedOpenHasNoEffect ==
    [][(\/ ret'.op \in OpenOps /\ ret'.res \in {"Pending", "Err"}
        \/ ret'.op = "drop")
        => UNCHANGED <<stream_ids, outgoings, input, senders, recvers, listener,
                       watcher, ctrl_frames, output_err, input_err, listener_err>>]_vars

\* C17 witness: a task found no id within the limit, was suspended and
\* dropped its request; no id is taken and the tables are empty
C17_Witness ==
    /\ ret.op = "drop"
    /\ \A t \in Tasks : open_tasks[t].pc = "idle"
    /\ \A d \in Dirs : stream_ids.local_next[d] = 0 /\ stream_ids.local_max[d] = 0
    /\ outgoings = {} /\ input = {}
    /\ Healthy

\* the frame of op cannot come from the peer for sid: the peer does not send
\* on a unidirectional stream of this endpoint and does not receive on one
\* of its own
WrongDirection(op, sid) ==
    /\ SidDir(sid) = "Uni"
    /\ \/ op \in SenderFrameOps /\ SidRole(sid) = LocalRole
       \/ op \in ReceiverFrameOps /\ SidRole(sid) = PeerRole

\* C18: the direction is tested before anything changes: a STREAM,
\* RESET_STREAM or STREAM_DATA_BLOCKED frame for a local unidirectional
\* stream and a STOP_SENDING or MAX_STREAM_DATA frame for a unidirectional
\* stream of the peer return STREAM_STATE_ERROR; no stream is opened, no
\* stream changes and no control frame is enqueued.
C18_WrongDirectionIsStreamStateError ==
    [][(ret'.op \in StreamFrameOps /\ WrongDirection(ret'.op, ret'.sid))
        => /\ ret'.err = "StreamState"
           /\ NoStreamOpened
           /\ UNCHANGED <<ctrl_frames, cur_sending_stream, panicked, output_err,
                          input_err, listener_err>>]_vars

\* C18 witness: a RESET_STREAM frame named the open unidirectional stream
\* of this endpoint and was refused; the stream is in the table as it was
C18_Witness ==
    /\ ret.op = "ResetStream"
    /\ ret.sid = MkSid(LocalRole, "Uni", 0)
    /\ ret.err = "StreamState"
    /\ ret.sid \in outgoings
    /\ senders[ret.sid].st = "Ready"
    /\ listener # <<>>

C20_ResetRemovesEntryOnSuccessOnly ==
    [][(ret'.op = "ResetStream" /\ ret'.routed)
        => /\ ret'.err = "" => ret'.sid \notin input'
           /\ ret'.err # "" => ret'.sid \in input']_vars

\* the streams, their tables and what was handed to the packetizer
StreamsAndTables ==
    <<outgoings, cur_sending_stream, senders, input, recvers, listener, ctrl_frames,
      emitted, stream_ids.local_next, stream_ids.remote_next>>

\* C21: the connection error state is terminal and free of side effects:
\* once on_conn_error(e) has run, the OutputTable and the InputTable hold e
\* for ever (a later on_conn_error with another error neither clears nor
\* replaces it) and try_read_data, on_data_acked, may_loss_data,
\* on_reset_acked, recv_data and recv_stream_control emit no frame, open no
\* stream, enqueue no control frame and change no stream state.
C21_ErrorStateIsTerminal ==
    [][(output_err # 0 \/ input_err # 0)
        => /\ output_err' = output_err
           /\ input_err' = input_err
           /\ input_err = output_err
           /\ UNCHANGED StreamsAndTables
           /\ ret'.op = "try_read_data" => ret'.res = None]_vars

\* after the error, with a STREAM frame in flight and a RESET_STREAM sent, a
\* handler was called for a frame of the peer
C21_Witness ==
    /\ output_err # 0
    /\ inflight # {}
    /\ ctrl_frames # <<>>
    /\ ret.op \in {"recv_data", "ResetStream", "StopSending", "MaxStreamData",
                   "on_data_acked", "on_reset_acked", "try_read_data"}

\* C22: after on_conn_error(e) every poll_open_bi_stream and every
\* poll_open_uni_stream resolves at once to Err(e): it is never Pending and
\* creates no stream; the hooks for acknowledgements and losses return
\* without a panic and without an effect.
C22_OpenAfterErrorIsErr ==
    [][output_err # 0
        => /\ ret'.op \in OpenOps
                => /\ ret'.res = "Err"
                   /\ ret'.err = output_err
                   /\ UNCHANGED <<outgoings, input, senders, recvers, stream_ids, watcher>>
           /\ ret'.op = "on_data_acked" => ~ret'.ret
           /\ inflight' # inflight \/ nlost' # nlost \/ ret'.op = "on_reset_acked"
                => UNCHANGED <<outgoings, senders, cur_sending_stream, ctrl_frames>>
           /\ ~panicked']_vars

\* after the error a stream was asked for, while the peer's limit leaves no
\* room for one and STREAM frames are in flight
C22_Witness ==
    /\ output_err # 0
    /\ ret.op \in OpenOps
    /\ ret.res = "Err"
    /\ \E d \in Dirs : stream_ids.local_next[d] >= stream_ids.local_max[d]
    /\ inflight # {}

\* a task suspended on a send stream, or in new_writer / max_datagram_frame_size
ProducerSuspended(t) == producers[t].pc \in {"pending", "woken"}
DatagramTaskSuspended(t) == datagram_tasks[t].pc \in {"pending", "woken"}

\* C23: every task that is suspended when on_conn_error is called is woken
\* and observes the error on its next poll: a producer suspended on a send
\* stream in Ready, Sending or DataSent is woken by wake_all and finds the
\* stream broken, and a task suspended in new_writer or
\* max_datagram_frame_size, waiting for remote_max_size, is woken and
\* returns the connection error instead of waiting for ever.
C23_SuspendedTasksObserveTheError ==
    /\ [][\A t \in Tasks :
            /\ (producers[t].pc = "pending" /\ output_err = 0 /\ output_err' # 0)
                   => /\ producers'[t].pc = "woken"
                      /\ senders'[producers[t].sid].st = "Err"
            /\ (datagram_tasks[t].pc = "pending" /\ datagram_err = 0 /\ datagram_err' # 0)
                   => datagram_tasks'[t].pc = "woken"]_vars
    /\ \A t \in Tasks :
            /\ (ProducerSuspended(t) /\ output_err # 0) ~> (producers[t].pc = "failed")
            /\ (DatagramTaskSuspended(t) /\ datagram_err # 0)
                   ~> (ret.op \in {"new_writer", "max_datagram_frame_size"}
                       /\ ret.task = t /\ ret.res = "Err")

C25_DequeuesIffNoLengthFormFits ==
    [][ret'.op = "try_read_datagram"
        => IF datagram_err = 0 /\ queue # <<>> /\ Len(ret'.before) >= 1 + Head(queue)
           THEN /\ IsSome(ret'.res)
                /\ Unwrap(ret'.res).len = Head(queue)
                /\ queue' = Tail(queue)
           ELSE /\ ret'.res = None
                /\ ret'.buf = ret'.before
                /\ queue' = queue]_vars

\* a buffer as long as the payload at the head was refused and kept its bytes
C25_Witness ==
    /\ datagram_err = 0
    /\ ret.op = "try_read_datagram"
    /\ ret.res = None
    /\ queue # <<>>
    /\ Len(ret.before) = Head(queue)
    /\ ret.buf = [i \in 1 .. Len(ret.before) |-> "XX"]

\* the buffer, the payload length and the result of a try_read_datagram that emitted
EmittedDatagram == ret.op = "try_read_datagram" /\ IsSome(ret.res)

\* C26: when try_read_datagram emits a payload of length L into a buffer of
\* length B: if B - L >= 1 + (size of the varint of L) the frame has the
\* form with the length (type 0x31), starts the buffer and the call returns
\* 1 + varint size + L bytes written; otherwise the frame has the form
\* without the length (type 0x30), is the last 1 + L bytes of the buffer,
\* preceded by B - L - 1 PADDING bytes, and the call returns B bytes written.
C26_FrameFormAndPlace ==
    EmittedDatagram
        => LET r == Unwrap(ret.res)
               L == r.len
               B == Len(ret.buf)
           IN  IF B - L >= 1 + VarIntSize(L)
               THEN /\ r.frame = "WithLen"
                    /\ r.written = 1 + VarIntSize(L) + L
                    /\ ret.buf[1] = "31"
                    /\ \A i \in 2 .. 1 + VarIntSize(L) : ret.buf[i] = "LL"
                    /\ \A i \in 2 + VarIntSize(L) .. r.written : ret.buf[i] = "DD"
                    /\ \A i \in r.written + 1 .. B : ret.buf[i] = ret.before[i]
               ELSE /\ B - L >= 1
                    /\ r.frame = "NoLen"
                    /\ r.written = B
                    /\ ret.buf[B - L] = "30"
                    /\ \A i \in B - L + 1 .. B : ret.buf[i] = "DD"
                    /\ \A i \in 1 .. B - L - 1 : ret.buf[i] = "00"

\* C27: in the padding-first case of try_read_datagram every byte of the
\* buffer that precedes the DATAGRAM frame is a PADDING frame (0x00) after
\* the call, whatever the caller had left in the buffer.
C27_PaddingBeforeFrame ==
    (EmittedDatagram /\ Unwrap(ret.res).frame = "NoLen")
        => \A i \in 1 .. Len(ret.buf) - Unwrap(ret.res).len - 1 : ret.buf[i] = "00"

C29_DatagramErrorIsTerminal ==
    [][/\ datagram_err' # 0 => queue' = <<>>
       /\ datagram_err # 0
            => /\ datagram_err' = datagram_err
               /\ ret'.op \in {"send_bytes", "new_writer", "max_datagram_frame_size"}
                    => ret'.res = "Err" /\ ret'.err = datagram_err
               /\ ret'.op = "try_read_datagram"
                    => ret'.res = None /\ ret'.buf = ret'.before]_vars

\* a second on_conn_error, with another error, left the first one stored
C29_Witness ==
    /\ ret.op = "datagram_on_conn_error"
    /\ datagram_err # 0
    /\ datagram_err # ret.e
    /\ \E t \in Tasks : datagram_tasks[t].writer

\* C30: new_writer does not resolve while remote_max_size is unset and the
\* channel is healthy; a new_writer that is pending resolves to a
\* DatagramWriter after update_remote_max_datagram_frame_size has set the
\* size (or to the error, if the connection fails first); so every
\* DatagramWriter obtained through new_writer sees a known remote_max_size.
C30_NewWriterWaitsForTheSize ==
    /\ [][(ret'.op = "new_writer" /\ datagram_err = 0 /\ ~IsSome(remote_max_size))
            => /\ ret'.res = "Pending"
               /\ ~datagram_tasks'[ret'.task].writer]_vars
    /\ [](\A t \in Tasks :
            (datagram_tasks[t].writer /\ datagram_err = 0) => IsSome(remote_max_size))
    /\ \A t \in Tasks :
            (DatagramTaskSuspended(t) /\ IsSome(remote_max_size))
                ~> (datagram_tasks[t].writer \/ datagram_err # 0)

\* the size arrived while both tasks were suspended in new_writer
C30_Witness ==
    /\ datagram_err = 0
    /\ IsSome(remote_max_size)
    /\ \A t \in Tasks : datagram_tasks[t].pc = "woken" /\ ~datagram_tasks[t].writer

\* the number of bytes of the buffer that hold b
CountBytes(buf, b) == Cardinality({i \in 1 .. Len(buf) : buf[i] = b})

\* C31: the datagram queue is a FIFO with at-most-once emission: whatever
\* the interleaving of send_bytes calls of several writers and
\* try_read_datagram calls, an accepted payload goes to the back of the
\* queue, only the payload at the front is emitted, whole and in a single
\* DATAGRAM frame, and it leaves the queue as it is emitted, so it is never
\* emitted twice; nothing else reorders the queue.
C31_FifoAtMostOnce ==
    [][/\ (ret'.op = "send_bytes" /\ ret'.res = "Ok") => queue' = Append(queue, ret'.len)
       /\ (ret'.op = "send_bytes" /\ ret'.res # "Ok") => queue' = queue
       /\ (ret'.op = "try_read_datagram" /\ IsSome(ret'.res))
            => /\ queue # <<>>
               /\ Unwrap(ret'.res).len = Head(queue)
               /\ queue' = Tail(queue)
               /\ CountBytes(ret'.buf, "DD") = Head(queue)
               /\ CountBytes(ret'.buf, "30") + CountBytes(ret'.buf, "31") = 1
       /\ (ret'.op = "try_read_datagram" /\ ret'.res = None) => queue' = queue
       /\ ret'.op \notin {"send_bytes", "try_read_datagram"}
            => queue' = queue \/ (queue' = <<>> /\ datagram_err' # 0)]_vars

\* both tasks hold a writer; of two payloads of different lengths the one
\* accepted first was emitted and the other is still queued
C31_Witness ==
    /\ \A t \in Tasks : datagram_tasks[t].writer
    /\ ret.op = "try_read_datagram"
    /\ IsSome(ret.res)
    /\ Len(queue) = 1
    /\ Head(queue) < Unwrap(ret.res).len

\* the buffer bytes a STREAM frame occupies with what precedes it
OccupiedBytes(capacity, frame) ==
    LET c == should_carry_length(frame.id, frame.offset, frame.len, capacity)
        hdr == FrameHeaderSize(frame.id, frame.offset)
    IN  CASE c.kind = "NoProblem" -> hdr + frame.len
          [] c.kind = "PaddingFirst" -> c.n + hdr + frame.len
          [] c.kind = "ShouldAfter" -> hdr + VarIntSize(frame.len) + frame.len

\* C32: whenever try_read emits a frame, the bytes_written that
\* try_read_data passes on equals the buffer bytes occupied by the leading
\* padding and the encoded STREAM frame; in the pad-first case that is the
\* whole buffer, and it is never 0.
C32_WrittenIsOccupied ==
    (ret.op = "try_read_data" /\ IsSome(ret.res))
        => LET r == Unwrap(ret.res)
               c == should_carry_length(r.frame.id, r.frame.offset, r.frame.len, ret.capacity)
           IN  /\ r.written = OccupiedBytes(ret.capacity, r.frame)
               /\ r.written > 0
               /\ c.kind = "PaddingFirst" => r.written = ret.capacity

\* C33: the assertions of the recovery hooks are never reached: a stream
\* that on_data_acked or may_loss_data can reach for an emitted frame is not
\* in Ready, a stream that on_reset_acked can reach for an enqueued
\* RESET_STREAM is in ResetSent, no step of these hooks panics, and
\* ResetSent is left only by the acknowledgement of the reset.
C33_RecoveryHooksNeverPanic ==
    /\ [](output_err = 0
            => /\ \A fr \in inflight :
                    fr.id \in outgoings => senders[fr.id].st # "Ready"
               /\ \A i \in 1 .. Len(ctrl_frames) :
                    (ctrl_frames[i].type = "ResetStream"
                        /\ ctrl_frames[i].stream_id \in outgoings)
                    => senders[ctrl_frames[i].stream_id].st = "ResetSent")
    /\ [][/\ (panicked' /\ ~panicked)
                => /\ ret'.op \notin {"on_data_acked", "on_reset_acked"}
                   /\ nlost' = nlost
          /\ \A sid \in Sids :
                (senders[sid].st = "ResetSent" /\ senders'[sid].st # "ResetSent")
                => /\ ret'.op = "on_reset_acked"
                   /\ ret'.sid = sid
                   /\ senders'[sid].st = "ResetRcvd"]_vars

\* the acknowledgement of a RESET_STREAM reached its stream in ResetSent
\* while a frame of that stream was still in flight
C33_Witness ==
    /\ ~panicked
    /\ ret.op = "on_reset_acked"
    /\ senders[ret.sid].st = "ResetRcvd"
    /\ \E fr \in inflight : fr.id = ret.sid

\* C34: no sequence of frames of the peer drives the stream manager into a
\* panic; in particular a STOP_SENDING frame for a stream whose send side is
\* still in Ready (a local stream that has emitted nothing, or a remote
\* bidirectional stream this frame has just opened) returns normally and
\* does not reach the unreachable!() of stop().
C34_NoPanicFromPeerFrames ==
    ~(panicked /\ ret.op \in {"StopSending", "MaxStreamData", "recv_data", "ResetStream",
                              "StreamDataBlocked", "MaxStreams"})

\* the global order of the mutexes: OutputTable, InputTable, listener, then
\* the locks taken last (a stream's sender or receiver, the id counters)
LockRank(l) ==
    CASE l = "output" -> 1
      [] l = "input" -> 2
      [] l = "listener" -> 3
      [] OTHER -> 4

\* a thread inside an operation that can take its next step
CanStep(t) ==
    /\ lock_pc[t] # <<>>
    /\ Head(lock_pc[t])[1] = "acq" => lock_owner[Head(lock_pc[t])[2]] = None

\* C35: the stream manager is deadlock-free under any interleaving of its
\* operations: a thread takes a mutex only when every mutex it holds comes
\* earlier in the order OutputTable, InputTable, listener, stream lock (so
\* no table lock is taken while a stream lock is held), an operation that
\* suspends or returns holds no lock, and whenever some thread is inside an
\* operation some thread can take its next step.
C35_LockOrderNoDeadlock ==
    /\ [](\A t \in Tasks :
            /\ lock_pc[t] = <<>> => Held(t) = {}
            /\ (lock_pc[t] # <<>> /\ Head(lock_pc[t])[1] = "suspend") => Held(t) = {})
    /\ []((\E t \in Tasks : lock_pc[t] # <<>>) => \E t \in Tasks : CanStep(t))
    /\ [][\A t \in Tasks, l \in Locks :
            (lock_owner'[l] = Some(t) /\ lock_owner[l] # Some(t))
            => \A h \in Held(t) : LockRank(h) < LockRank(l)]_vars

\* a thread holds the OutputTable and waits for the sender's lock, which a
\* Writer on the other thread holds
C35_Witness ==
    \E t \in Tasks, u \in Tasks :
        /\ lock_pc[t] # <<>>
        /\ Head(lock_pc[t]) = Acq("sender")
        /\ Held(t) = {"output"}
        /\ Held(u) = {"sender"}

\* C36: the tables respect the direction of a stream in every reachable
\* state: the OutputTable holds no remote-initiated unidirectional stream,
\* the InputTable holds no locally-initiated unidirectional stream, and a
\* bidirectional stream, local or remote, enters the InputTable and the
\* OutputTable in the same step.
C36_TablesRespectDirection ==
    /\ [](/\ \A sid \in outgoings : ~(SidRole(sid) # LocalRole /\ SidDir(sid) = "Uni")
          /\ \A sid \in input : ~(SidRole(sid) = LocalRole /\ SidDir(sid) = "Uni"))
    /\ [][\A sid \in Sids :
            SidDir(sid) = "Bi"
            => ((sid \in outgoings' /\ sid \notin outgoings)
                    <=> (sid \in input' /\ sid \notin input))]_vars

\* streams of all four quadrants are open: the bidirectional ones in both
\* tables, the unidirectional ones in one
C36_Witness ==
    /\ \A r \in {LocalRole, PeerRole} :
            MkSid(r, "Bi", 0) \in outgoings \cap input
    /\ MkSid(LocalRole, "Uni", 0) \in outgoings
    /\ MkSid(PeerRole, "Uni", 0) \in input

\* C37: recv_packet_via_pathway forwards a packet to exactly one entry, the
\* entry of the connection registered for the packet's destination
\* connection id at the index of the packet type (Initial 0, 0-RTT 1,
\* Handshake 2, 1-RTT short header 3), and returns None; when the id is not
\* registered (never registered, or removed when its RETIRE_CONNECTION_ID
\* was accepted) nothing is forwarded and the packet is handed back.  The id
\* of a NEW_CONNECTION_ID frame sent through RouterRegistry is registered
\* before the frame is handed to the issuing queue.
C37_RoutingByConnectionId ==
    [][/\ ret'.op = "recv_packet"
            => LET p == ret'.packet
               IN  IF IsSome(router[p.dcid])
                   THEN /\ ret'.res = None
                        /\ \A c \in Conns, i \in 0 .. 3 :
                            entries'[c][i] =
                                IF /\ c = Unwrap(router[p.dcid])
                                   /\ <<p.type, i>> \in {<<"Initial", 0>>, <<"ZeroRtt", 1>>,
                                                         <<"Handshake", 2>>, <<"Short", 3>>}
                                THEN Append(entries[c][i], p)
                                ELSE entries[c][i]
                   ELSE /\ ret'.res = Some(p)
                        /\ entries' = entries
       /\ ret'.op # "recv_packet" => entries' = entries
       /\ (ret'.op = "retire" /\ ~ret'.res.err /\ IsSome(ret'.res.cid))
            => router'[Unwrap(ret'.res.cid)] = None
       /\ ret'.op = "send_frame"
            => router'[ret'.cid] = Some(ret'.conn) /\ issued_cids' = issued_cids
       /\ \A c \in Conns :
            issued_cids'[c] # issued_cids[c]
            => /\ IsSome(registries[c].inspected)
               /\ issued_cids'[c] = Append(issued_cids[c], Unwrap(registries[c].inspected))
               /\ router[Unwrap(registries[c].inspected)] = Some(c)]_vars

\* a short-header packet reached entry 3 of the connection that had issued
\* its destination id in a NEW_CONNECTION_ID frame, while another id of that
\* connection is retired and unregistered
C37_Witness ==
    /\ ret.op = "recv_packet"
    /\ ret.res = None
    /\ ret.packet.type = "Short"
    /\ \E c \in Conns :
        /\ entries[c][3] = <<ret.packet>>
        /\ issued_cids[c] = <<ret.packet.dcid>>
        /\ \E cid \in Cids : router[cid] = None /\ cid # ret.packet.dcid

====
